---- MODULE Spec2Model ----
(***************************************************************************)
(* Multisweeper: the Board / Game core (flood-fill reveal, mine placement, *)
(* terminal-state determination), the ambiguity solver, and the part of    *)
(* the socket transport that forwards reveal requests into a room's Game.  *)
(*                                                                         *)
(* Spec       a game whose board is built by game.set or game.init and     *)
(*            then played with game.reveal                                 *)
(* SpecPlaced the games whose board comes from game.init alone             *)
(* SpecRoom   a room of the transport: sockets connect, disconnect and     *)
(*            send reveal requests to the room's game                      *)
(* SpecCreate the arguments of new Game(w, h) and of the first game.init   *)
(* SpecWatch  a game with observers that only listen, and calls with       *)
(*            coordinates outside the board                                *)
(* SpecObserve a game whose observers may unsubscribe or reveal inside     *)
(*            their call                                                   *)
(* SpecServer the array-based server: startGame, revealTile, toggleFlag    *)
(* SpecChord  the array-based server with chordTile                        *)
(* SpecSolver the solver asked on any board with any cells visible         *)
(* SpecRow    the solver on a board of one row of five cells               *)
(* SpecBig    a board of 481 cells, past the area the solver is meant for  *)
(* SpecRun    game.reveal and game.isGameOver executed step by step;       *)
(*            SpecRunFair adds that a call, once entered, keeps running    *)
(* SpecLobby  the lobby of a room code: create, join, leave, launch, and   *)
(*            the sockets that connect to the Games launched for it        *)
(* SpecMembers the players of a lobby: join, leave, disconnect and the     *)
(*            timeout of an emptied lobby                                  *)
(* SpecJoin   a room of the array-based server and its joinLobby requests, *)
(*            which wait for a file between their test and their insertion *)
(* SpecRestart the array-based server with requests after the end of the   *)
(*            game and restartGame                                         *)
(*                                                                         *)
(* A board is built before it is played: set and init act only while no    *)
(* cell is visible.  game.reveal is a function of the board and the cell,  *)
(* so a property of "the state after a reveal" is stated of After(p) for   *)
(* every cell p, in every reachable state.                                 *)
(***************************************************************************)
EXTENDS Integers, Sequences, FiniteSets, TLC

\* ------------------------------------------------------------------ bounds
W == 3
H == 2
MaxMines == 1
MaxSets == 1
NumSockets == 2
RoomMines == 1
MaxLaunches == 2

\* ------------------------------------------------------------------- tiles
TileEmp == "Empty Tile"
TileMin == "Mine Tile"
TileNum == "Number Tile"
TileHidden == "Hidden Tile"
TileFlag == "Flag Tile"

Emp == [t |-> TileEmp, n |-> 0]
Min == [t |-> TileMin, n |-> 0]
Num(n) == [t |-> TileNum, n |-> n]
Hidden == [t |-> TileHidden, n |-> 0]
Flag == [t |-> TileFlag, n |-> 0]

\* ------------------------------------------------------------------- board
\* board(w, h): every coordinate, x outer and y inner.
board == [k \in 1..(W * H) |-> <<(k - 1) \div H, (k - 1) % H>>]

Coords == {board[k] : k \in 1..(W * H)}

\* surrounding(x, y): the eight neighbours, dx outer and dy inner, bounds not
\* checked.
surrounding(p) ==
  << <<p[1] - 1, p[2] - 1>>, <<p[1] - 1, p[2]>>, <<p[1] - 1, p[2] + 1>>,
     <<p[1], p[2] - 1>>, <<p[1], p[2] + 1>>,
     <<p[1] + 1, p[2] - 1>>, <<p[1] + 1, p[2]>>, <<p[1] + 1, p[2] + 1>> >>

\* The bounds test every caller of surrounding applies to a neighbour.
InBounds(p) == ~(p[1] < 0 \/ p[1] >= W \/ p[2] < 0 \/ p[2] >= H)

\* The in-bounds neighbours of p, in the order of surrounding.
Neighbors(p) == SelectSeq(surrounding(p), InBounds)

Range(s) == {s[i] : i \in 1..Len(s)}

\* Board.apply: the tile when visible, the hidden sentinel otherwise.
apply(til, vis, p) == IF vis[p] THEN til[p] ELSE Hidden

\* ------------------------------------------------------------------ solver
\* The 1-based position of e in s (hiddenTileToId.get; ids are positions in
\* idToHiddenTile, counted from 1 here).
IndexOf(s, e) == CHOOSE i \in 1..Len(s) : s[i] = e

\* hiddenNeighbors.map(...): the id of every hidden neighbour, a tile seen for
\* the first time being appended to idToHiddenTile.
RECURSIVE AssignIds(_, _, _, _)
AssignIds(idTo, hn, i, ids) ==
  IF i > Len(hn) THEN [idToHiddenTile |-> idTo, ids |-> ids]
  ELSE IF hn[i] \in Range(idTo)
       THEN AssignIds(idTo, hn, i + 1, Append(ids, IndexOf(idTo, hn[i])))
       ELSE AssignIds(Append(idTo, hn[i]), hn, i + 1,
                      Append(ids, Len(idTo) + 1))

\* The body of the constraint-building loop for the cell p; safe records the
\* "return false" of a Number whose remaining mine count is 0.
ScanCell(st, p, vis, til) ==
  IF ~vis[p] THEN st
  ELSE
    LET st1 == [st EXCEPT !.hasVisible = TRUE] IN
    IF til[p].t # TileNum THEN st1
    ELSE
      LET nb == Neighbors(p)
          hiddenNeighbors == SelectSeq(nb, LAMBDA q : ~vis[q])
          minesAround == Cardinality({i \in 1..Len(nb) :
                             vis[nb[i]] /\ til[nb[i]].t = TileMin})
          remainingMines == til[p].n - minesAround
          a == AssignIds(st1.idToHiddenTile, hiddenNeighbors, 1, <<>>)
      IN IF Len(hiddenNeighbors) = 0 THEN st1
         ELSE IF remainingMines = 0 THEN [st1 EXCEPT !.safe = TRUE]
         ELSE [st1 EXCEPT !.idToHiddenTile = a.idToHiddenTile,
                          !.constraints = Append(@, [ids |-> a.ids,
                                                     value |-> remainingMines])]

\* 1. Build Constraints: the scan over x and y, left as soon as a cell returns
\* false.
RECURSIVE BuildConstraints(_, _, _, _)
BuildConstraints(k, st, vis, til) ==
  IF k > W * H \/ st.safe THEN st
  ELSE BuildConstraints(k + 1, ScanCell(st, board[k], vis, til), vis, til)

\* adj[u].push(v) and adj[v].push(u), each unless already included.
Link(adj, u, v) ==
  LET a1 == IF v \in Range(adj[u]) THEN adj
            ELSE [adj EXCEPT ![u] = Append(@, v)]
  IN IF u \in Range(a1[v]) THEN a1 ELSE [a1 EXCEPT ![v] = Append(@, u)]

\* The double loop i < j over the ids of one constraint.
RECURSIVE AddPairs(_, _, _, _)
AddPairs(adj, ids, i, j) ==
  IF i > Len(ids) THEN adj
  ELSE IF j > Len(ids) THEN AddPairs(adj, ids, i + 1, i + 2)
  ELSE IF ids[j] \in Range(adj[ids[i]]) /\ ids[i] \in Range(adj[ids[j]])
       THEN AddPairs(adj, ids, i, j + 1)
  ELSE AddPairs(Link(adj, ids[i], ids[j]), ids, i, j + 1)

\* 2. Build Graph for Components.
RECURSIVE BuildAdj(_, _, _)
BuildAdj(adj, cs, k) ==
  IF k > Len(cs) THEN adj
  ELSE BuildAdj(AddPairs(adj, cs[k].ids, 1, 2), cs, k + 1)

\* for (const v of adj[u]) if (!visited[v]) { visited[v] = true; q.push(v) }
RECURSIVE PushUnvisited(_, _, _, _)
PushUnvisited(q, visited, nbrs, i) ==
  IF i > Len(nbrs) THEN [q |-> q, visited |-> visited]
  ELSE IF nbrs[i] \in visited THEN PushUnvisited(q, visited, nbrs, i + 1)
  ELSE PushUnvisited(Append(q, nbrs[i]), visited \cup {nbrs[i]}, nbrs, i + 1)

\* while (q.length > 0) { u = q.pop(); componentVars.push(u); ... }
RECURSIVE Traverse(_, _, _, _)
Traverse(q, visited, comp, adj) ==
  IF Len(q) = 0 THEN [componentVars |-> comp, visited |-> visited]
  ELSE LET u == q[Len(q)]
           r == PushUnvisited(SubSeq(q, 1, Len(q) - 1), visited, adj[u], 1)
       IN Traverse(r.q, r.visited, Append(comp, u), adj)

\* The constraints that touch the component, restricted to its variables and
\* renumbered by position in componentVars.
compConstraints(constraints, componentVars) ==
  LET inComponent == Range(componentVars)
      touching == SelectSeq(constraints, LAMBDA c :
                    \E i \in 1..Len(c.ids) : c.ids[i] \in inComponent)
  IN [k \in 1..Len(touching) |->
       LET own == SelectSeq(touching[k].ids, LAMBDA id : id \in inComponent)
       IN [ids |-> [i \in 1..Len(own) |-> IndexOf(componentVars, own[i])],
           value |-> touching[k].value]]

\* Variant of check that tests the sum against the value from above only.
checkUpperOnly(cc, assignment, upto) ==
  \A k \in 1..Len(cc) :
    LET c == cc[k]
        sum == Cardinality({i \in 1..Len(c.ids) :
                              c.ids[i] <= upto /\ assignment[c.ids[i]] = 1})
    IN ~(sum > c.value)

\* check(upto): no constraint is exceeded by the variables assigned so far, nor
\* out of reach of the variables still unassigned.
check(cc, assignment, upto) ==
  \A k \in 1..Len(cc) :
    LET c == cc[k]
        sum == Cardinality({i \in 1..Len(c.ids) :
                              c.ids[i] <= upto /\ assignment[c.ids[i]] = 1})
        unassigned == Cardinality({i \in 1..Len(c.ids) : c.ids[i] > upto})
    IN ~(sum > c.value) /\ ~(sum + unassigned < c.value)

\* solve(idx): the backtracking search; the result is the list of solutions
\* in the order in which the code pushes them.
RECURSIVE solve(_, _, _, _)
solve(cc, n, idx, assignment) ==
  IF idx = n + 1 THEN <<assignment>>
  ELSE LET a0 == [assignment EXCEPT ![idx] = 0]
           a1 == [assignment EXCEPT ![idx] = 1]
       IN (IF check(cc, a0, idx) THEN solve(cc, n, idx + 1, a0) ELSE <<>>)
          \o (IF check(cc, a1, idx) THEN solve(cc, n, idx + 1, a1) ELSE <<>>)

\* Some variable of the component is 0 in every solution.
\* Variant of HasAlwaysSafe that is content with one solution in which the
\* variable is 0.
HasSometimesSafe(solutions, n) ==
  \E j \in 1..n : \E s \in 1..Len(solutions) : solutions[s][j] # 1

HasAlwaysSafe(solutions, n) ==
  \E j \in 1..n : \A s \in 1..Len(solutions) : solutions[s][j] # 1

\* 3. Solve each component: the loop over i; FALSE as soon as a component has
\* an always-safe variable, TRUE when none has.
RECURSIVE SolveComponents(_, _, _, _, _)
SolveComponents(i, visited, numVars, adj, constraints) ==
  IF i > numVars THEN TRUE
  ELSE IF i \in visited
       THEN SolveComponents(i + 1, visited, numVars, adj, constraints)
  ELSE LET tr == Traverse(<<i>>, visited \cup {i}, <<>>, adj)
           n == Len(tr.componentVars)
           cc == compConstraints(constraints, tr.componentVars)
           solutions == solve(cc, n, 1, [j \in 1..n |-> 0])
       IN IF Len(solutions) = 0
          THEN SolveComponents(i + 1, tr.visited, numVars, adj, constraints)
          ELSE IF HasAlwaysSafe(solutions, n) THEN FALSE
          ELSE SolveComponents(i + 1, tr.visited, numVars, adj, constraints)

\* Variant of isAmbiguous that does not ask whether any cell is visible when
\* there is no constraint.
isAmbiguousNoStart(vis, til) ==
  LET st == BuildConstraints(1, [idToHiddenTile |-> <<>>, constraints |-> <<>>,
                                 hasVisible |-> FALSE, safe |-> FALSE],
                             vis, til)
      numVars == Len(st.idToHiddenTile)
      adj == BuildAdj([u \in 1..numVars |-> <<>>], st.constraints, 1)
  IN IF st.safe THEN FALSE
     ELSE IF Len(st.constraints) = 0
          THEN \E k \in 1..(W * H) : ~vis[board[k]]
     ELSE SolveComponents(1, {}, numVars, adj, st.constraints)

\* isAmbiguous(w, h, isVisible, get)
isAmbiguous(vis, til) ==
  LET st == BuildConstraints(1, [idToHiddenTile |-> <<>>, constraints |-> <<>>,
                                 hasVisible |-> FALSE, safe |-> FALSE],
                             vis, til)
      numVars == Len(st.idToHiddenTile)
      adj == BuildAdj([u \in 1..numVars |-> <<>>], st.constraints, 1)
  IN IF st.safe THEN FALSE
     ELSE IF Len(st.constraints) = 0
          THEN IF ~st.hasVisible THEN FALSE
               ELSE \E k \in 1..(W * H) : ~vis[board[k]]
     ELSE SolveComponents(1, {}, numVars, adj, st.constraints)

\* --------------------------------------------- the solver on any board size
\* The functions above are written for the W x H board of the games below.
\* isAmbiguous takes the width and the height as arguments; the definitions
\* that depend on them are repeated here with w and h explicit, for boards of
\* another shape.
boardOn(w, h) == [k \in 1..(w * h) |-> <<(k - 1) \div h, (k - 1) % h>>]

InBoundsOn(w, h, p) == ~(p[1] < 0 \/ p[1] >= w \/ p[2] < 0 \/ p[2] >= h)

NeighborsOn(w, h, p) ==
  SelectSeq(surrounding(p), LAMBDA q : InBoundsOn(w, h, q))

\* Variant of ScanCellOn that does not take the visible mines off the number.
ScanCellOnAllHidden(w, h, st, p, vis, til) ==
  IF ~vis[p] THEN st
  ELSE
    LET st1 == [st EXCEPT !.hasVisible = TRUE] IN
    IF til[p].t # TileNum THEN st1
    ELSE
      LET nb == NeighborsOn(w, h, p)
          hiddenNeighbors == SelectSeq(nb, LAMBDA q : ~vis[q])
          remainingMines == til[p].n
          a == AssignIds(st1.idToHiddenTile, hiddenNeighbors, 1, <<>>)
      IN IF Len(hiddenNeighbors) = 0 THEN st1
         ELSE IF remainingMines = 0 THEN [st1 EXCEPT !.safe = TRUE]
         ELSE [st1 EXCEPT !.idToHiddenTile = a.idToHiddenTile,
                          !.constraints = Append(@, [ids |-> a.ids,
                                                     value |-> remainingMines])]

\* The body of the constraint-building loop for the cell p.
ScanCellOn(w, h, st, p, vis, til) ==
  IF ~vis[p] THEN st
  ELSE
    LET st1 == [st EXCEPT !.hasVisible = TRUE] IN
    IF til[p].t # TileNum THEN st1
    ELSE
      LET nb == NeighborsOn(w, h, p)
          hiddenNeighbors == SelectSeq(nb, LAMBDA q : ~vis[q])
          minesAround == Cardinality({i \in 1..Len(nb) :
                             vis[nb[i]] /\ til[nb[i]].t = TileMin})
          remainingMines == til[p].n - minesAround
          a == AssignIds(st1.idToHiddenTile, hiddenNeighbors, 1, <<>>)
      IN IF Len(hiddenNeighbors) = 0 THEN st1
         ELSE IF remainingMines = 0 THEN [st1 EXCEPT !.safe = TRUE]
         ELSE [st1 EXCEPT !.idToHiddenTile = a.idToHiddenTile,
                          !.constraints = Append(@, [ids |-> a.ids,
                                                     value |-> remainingMines])]

\* 1. Build Constraints, for x in range(w) and y in range(h).  The body of
\* the loop acts on visible cells only, so the scan is taken over the visible
\* cells in the order of the loop; it is left as soon as a cell returns false.
RECURSIVE BuildConstraintsOn(_, _, _, _, _, _)
BuildConstraintsOn(w, h, cells, st, vis, til) ==
  IF cells = <<>> \/ st.safe THEN st
  ELSE BuildConstraintsOn(w, h, Tail(cells),
                          ScanCellOn(w, h, st, Head(cells), vis, til),
                          vis, til)

\* isAmbiguous(w, h, isVisible, get)
isAmbiguousOn(w, h, vis, til) ==
  LET seen == SelectSeq(boardOn(w, h), LAMBDA p : vis[p])
      st == BuildConstraintsOn(w, h, seen,
              [idToHiddenTile |-> <<>>, constraints |-> <<>>,
               hasVisible |-> FALSE, safe |-> FALSE], vis, til)
      numVars == Len(st.idToHiddenTile)
      adj == BuildAdj([u \in 1..numVars |-> <<>>], st.constraints, 1)
  IN IF st.safe THEN FALSE
     ELSE IF Len(st.constraints) = 0
          THEN IF ~st.hasVisible THEN FALSE
               ELSE \E x \in 0..(w - 1), y \in 0..(h - 1) : ~vis[<<x, y>>]
     ELSE SolveComponents(1, {}, numVars, adj, st.constraints)

\* Game.isGameOver() on a board of width w and height h.
isGameOverOn(w, h, til, vis) ==
  LET cells == {<<x, y>> : x \in 0..(w - 1), y \in 0..(h - 1)}
  IN IF \E p \in cells : vis[p] /\ til[p].t = TileMin THEN "LOSS"
     ELSE IF (\A p \in cells : ~(~vis[p] /\ til[p].t # TileMin))
             \/ isAmbiguousOn(w, h, vis, til)
          THEN "WIN"
     ELSE "GAMING"

\* -------------------------------------------------------------------- game

VARIABLES
  tiles,      \* Board.#tiles
  visible,    \* Board.#visible
  stage,      \* how the board was built: "fresh", "manual" or "placed"
  sets,       \* number of Game.set calls made while building by hand
  observers,  \* Game.observers: the sockets whose callback is subscribed,
              \* in subscription order
  roomDeads,  \* the room is in roomDeads
  lastCall,   \* whether the room was in roomDeads when the transport last
              \* forwarded a reveal into the game: "none" before the first
              \* one, then "live" or "dead"
  behaviour,  \* what each observer does when it is called: "none" before it
              \* subscribes, "gone" once it is unsubscribed
  log,        \* the last call made: its name, the arguments it was refused
              \* for, the error it threw and the notifications it delivered
  flagged,    \* room.state.flagged of the array-based server: 0 for no
              \* mark, 1 for a flag, 2 for a question mark
  gameOver,   \* room.state.gameOver and room.state.winner of the array-based
              \* server: "no" while playing, then "loss" or "win"
  run,        \* the call of game.reveal or game.isGameOver that is being
              \* executed step by step, with its call stack and locals
  rooms,      \* the lobby of one room code and the Game objects made for it:
              \* lobbies[room] with its players and its timeout, the number
              \* of Games rooms.set has stored (the newest is
              \* rooms.get(room)), the Game each connected socket's handlers
              \* hold, the Games that are over and the number of times a
              \* game was added to the statistics
  room        \* a room of the array-based server: whether rooms has it,
              \* room.players, and the sockets whose joinLobby handler has
              \* passed its size test and awaits readUsers()

vars == <<tiles, visible, stage, sets, observers, roomDeads, lastCall,
          behaviour, log, flagged, gameOver, run, rooms, room>>

\* rooms has no room yet.
Unmade == [exists |-> FALSE, players |-> {}, awaiting |-> {}]

\* No lobby was created and no Game stored for the room code.
NoRoom == [lobby |-> "absent", players |-> <<>>, timeout |-> "none",
           made |-> 0, game |-> [k \in 1..NumSockets |-> 0], served |-> 0,
           over |-> {}, recorded |-> 0]

\* No call is being executed step by step.
Idle == [op |-> "idle", stack |-> <<>>, phase |-> "none", i |-> 0,
         visited |-> {}, q |-> <<>>, componentVars |-> <<>>, cc |-> <<>>,
         assignment |-> <<>>, solutions |-> <<>>, constraints |-> <<>>,
         adj |-> <<>>, numVars |-> 0, answer |-> "none", expect |-> "none"]

Sockets == 1..NumSockets

\* Variant of MinesAround with a plausible slip: the diagonal neighbours are
\* not counted.
MinesAroundOrthogonal(til, p) ==
  Cardinality({i \in {2, 4, 5, 7} : InBounds(surrounding(p)[i])
                                    /\ til[surrounding(p)[i]].t = TileMin})

\* The number of Mine tiles among the in-bounds neighbours of p.
MinesAround(til, p) ==
  Cardinality({i \in 1..8 : InBounds(surrounding(p)[i])
                            /\ til[surrounding(p)[i]].t = TileMin})

\* Variant of safeCoordinates with a plausible slip: y is compared with sx.
safeCoordinatesTypo(s) == {p \in Coords : ~(p[1] = s[1] /\ p[2] = s[1])}

\* coordinates.filter(([x, y]) => !(x === sx && y === sy))
safeCoordinates(s) == {p \in Coords : ~(p = s)}

\* Variant of Samples that draws with replacement: a coordinate drawn twice
\* leaves fewer than c distinct ones.
SamplesWithReplacement(s, c) ==
  {M \in SUBSET safeCoordinates(s) :
     Cardinality(M) <= c /\ (c > 0 => M # {})}

\* sampleSize(safeCoordinates, c): every choice of c distinct coordinates.
Samples(s, c) == {M \in SUBSET safeCoordinates(s) : Cardinality(M) = c}

\* "setup tiles of mine"
SetMines(til, M) == [p \in Coords |-> IF p \in M THEN Min ELSE til[p]]

\* Variant of SetNumbers with a plausible slip: the test n > 0 is left out.
SetNumbersAlways(til) ==
  [p \in Coords |->
     IF til[p].t = TileMin THEN til[p] ELSE Num(MinesAround(til, p))]

\* "setup tiles of number": a non-mine cell with n > 0 mines around becomes
\* Num(n), any other cell keeps its tile.
SetNumbers(til) ==
  [p \in Coords |->
     IF til[p].t = TileMin THEN til[p]
     ELSE IF MinesAround(til, p) > 0 THEN Num(MinesAround(til, p))
     ELSE til[p]]

\* Game.init(c, sx, sy) once the sample M is drawn.
init(til, M) == SetNumbers(SetMines(til, M))

\* Game.revealRec(x, y); st is [visible, changes].  Visit is the body of the
\* loop over surrounding(x, y); s[i] is the state after its i-th iteration, so
\* that the flood returns s[8].
RECURSIVE revealRec(_, _, _)

\* Variant of Visit with a plausible slip: the flood enters Empty cells only,
\* so the cells bordering the Empty region stay hidden.
VisitEmptyOnly(st, til, q) ==
  IF ~InBounds(q) THEN st
  ELSE IF apply(til, st.visible, q) = Hidden /\ til[q].t = TileEmp
       THEN revealRec(st, til, q)
  ELSE st

Visit(st, til, q) ==
  IF ~InBounds(q) THEN st
  ELSE IF apply(til, st.visible, q) = Hidden THEN revealRec(st, til, q)
  ELSE st

\* Variant of revealRec with a plausible slip: the visibility of the cell is
\* flipped, not set.
revealRecToggle(st, til, p) ==
  LET st0 == [visible |-> [st.visible EXCEPT ![p] = ~@],
              changes |-> Append(st.changes, p)]
      nb == surrounding(p)
      s1 == Visit(st0, til, nb[1])
      s2 == Visit(s1, til, nb[2])
      s3 == Visit(s2, til, nb[3])
      s4 == Visit(s3, til, nb[4])
      s5 == Visit(s4, til, nb[5])
      s6 == Visit(s5, til, nb[6])
      s7 == Visit(s6, til, nb[7])
      s8 == Visit(s7, til, nb[8])
  IN IF til[p].t = TileEmp THEN <<s1, s2, s3, s4, s5, s6, s7, s8>>[8]
     ELSE st0

revealRec(st, til, p) ==
  LET st0 == [visible |-> [st.visible EXCEPT ![p] = TRUE],
              changes |-> Append(st.changes, p)]
      nb == surrounding(p)
      s1 == Visit(st0, til, nb[1])
      s2 == Visit(s1, til, nb[2])
      s3 == Visit(s2, til, nb[3])
      s4 == Visit(s3, til, nb[4])
      s5 == Visit(s4, til, nb[5])
      s6 == Visit(s5, til, nb[6])
      s7 == Visit(s6, til, nb[7])
      s8 == Visit(s7, til, nb[8])
  IN IF til[p].t = TileEmp THEN <<s1, s2, s3, s4, s5, s6, s7, s8>>[8]
     ELSE st0

\* Variants of isGameOver with one plausible slip each.
\* The win scan is consulted before the visible mines.
isGameOverWinFirst(til, vis) ==
  IF (\A k \in 1..(W * H) : ~(~vis[board[k]] /\ til[board[k]].t # TileMin))
  THEN "WIN"
  ELSE IF \E k \in 1..(W * H) : vis[board[k]] /\ til[board[k]].t = TileMin
       THEN "LOSS"
  ELSE IF isAmbiguous(vis, til) THEN "WIN"
  ELSE "GAMING"

\* The win flag of the scan is dropped and only the solver decides.
isGameOverNoScan(til, vis) ==
  IF \E k \in 1..(W * H) : vis[board[k]] /\ til[board[k]].t = TileMin
  THEN "LOSS"
  ELSE IF isAmbiguous(vis, til) THEN "WIN"
  ELSE "GAMING"

\* The solver is not consulted.
isGameOverNoSolver(til, vis) ==
  IF \E k \in 1..(W * H) : vis[board[k]] /\ til[board[k]].t = TileMin
  THEN "LOSS"
  ELSE IF (\A k \in 1..(W * H) :
             ~(~vis[board[k]] /\ til[board[k]].t # TileMin))
       THEN "WIN"
  ELSE "GAMING"

\* Hidden mines count against the win flag and the solver's verdict is
\* inverted.
isGameOverInverted(til, vis) ==
  IF \E k \in 1..(W * H) : vis[board[k]] /\ til[board[k]].t = TileMin
  THEN "LOSS"
  ELSE IF (\A k \in 1..(W * H) :
             ~(~vis[board[k]] /\ til[board[k]].t # TileMin))
          \/ ~isAmbiguous(vis, til)
       THEN "WIN"
  ELSE "GAMING"

\* Game.isGameOver()
isGameOver(til, vis) ==
  IF \E k \in 1..(W * H) : vis[board[k]] /\ til[board[k]].t = TileMin
  THEN "LOSS"
  ELSE IF (\A k \in 1..(W * H) :
             ~(~vis[board[k]] /\ til[board[k]].t # TileMin))
          \/ isAmbiguous(vis, til)
       THEN "WIN"
  ELSE "GAMING"

\* The part of a socket's game.subscribe callback that marks the room dead:
\* status !== "GAMING" && !roomDeads.has(room)  =>  roomDeads.add(room).
callback(dead, til, vis) ==
  IF ~dead /\ isGameOver(til, vis) # "GAMING" THEN TRUE ELSE dead

\* Variant of dispose that splices at the index of a missing element: the
\* last observer goes.
disposeLast(obs, o) == SubSeq(obs, 1, Len(obs) - 1)

\* The handle returned by game.observe: indexOf, then splice(index, 1).
dispose(obs, o) == SelectSeq(obs, LAMBDA x : x # o)

\* A flush works on st = [observers, visible, dead, delivered]: the live
\* observers array, the board's visibility, the room's roomDeads flag and the
\* notifications delivered so far.
RECURSIVE notify(_, _, _, _, _)
RECURSIVE deliver(_, _, _, _, _, _)

\* What observer o does inside its call: a "quiet" one is the transport's
\* callback, "leave" calls its own handle, "evict" calls the handle of the
\* first other observer, "poke" answers a top-level batch with a reveal of
\* the batch's first cell.
react(st, o, beh, til, cs, depth) ==
  CASE beh[o] = "quiet" ->
         [st EXCEPT !.dead = callback(@, til, st.visible)]
    [] beh[o] = "leave" ->
         [st EXCEPT !.observers = dispose(@, o)]
    [] beh[o] = "evict" ->
         LET others == dispose(st.observers, o)
         IN IF others = <<>> THEN st
            ELSE [st EXCEPT !.observers = dispose(@, others[1])]
    [] beh[o] = "poke" /\ depth = 0 ->
         LET r == revealRec([visible |-> st.visible, changes |-> <<>>],
                            til, cs[1])
         IN notify([st EXCEPT !.visible = r.visible], beh, til, r.changes,
                   depth + 1)
    [] OTHER -> st

\* for (const observer of this.observers) observer(cs): the array is walked
\* by index while the calls may splice it.
deliver(st, beh, til, cs, i, depth) ==
  IF i > Len(st.observers) THEN st
  ELSE LET o == st.observers[i]
           st1 == [st EXCEPT !.delivered =
                     Append(@, [to |-> o, cs |-> cs, depth |-> depth])]
       IN deliver(react(st1, o, beh, til, cs, depth),
                  beh, til, cs, i + 1, depth)

\* Game.#notify: a batch that is not empty is taken out of #changes and
\* handed to the observers.
notify(st, beh, til, cs, depth) ==
  IF Len(cs) > 0 THEN deliver(st, beh, til, cs, 1, depth) ELSE st

\* Variant of reveal that flushes after every cell the flood makes visible.
RECURSIVE flushEach(_, _, _, _, _)
flushEach(st, beh, til, cs, i) ==
  IF i > Len(cs) THEN st
  ELSE flushEach(notify(st, beh, til, <<cs[i]>>, 0), beh, til, cs, i + 1)

revealEager(obs, beh, dead, til, vis, p) ==
  LET r == revealRec([visible |-> vis, changes |-> <<>>], til, p)
  IN flushEach([observers |-> obs, visible |-> r.visible, dead |-> dead,
                delivered |-> <<>>], beh, til, r.changes, 1)

\* Variant of reveal that accumulates the target itself before the flood
\* accumulates it again.
revealAccumulateFirst(obs, beh, dead, til, vis, p) ==
  LET r == revealRec([visible |-> vis, changes |-> <<p>>], til, p)
  IN notify([observers |-> obs, visible |-> r.visible, dead |-> dead,
             delivered |-> <<>>], beh, til, r.changes, 0)

\* The outcome of game.reveal(x, y) on an in-bounds cell: the flood, then the
\* flush.
reveal(obs, beh, dead, til, vis, p) ==
  LET r == revealRec([visible |-> vis, changes |-> <<>>], til, p)
  IN notify([observers |-> obs, visible |-> r.visible, dead |-> dead,
             delivered |-> <<>>], beh, til, r.changes, 0)

\* The record of a call: name, refused arguments, error, notifications.
Called(op, args, error, delivered) ==
  [op |-> op, args |-> args, error |-> error, delivered |-> delivered]

\* An observer that is no longer subscribed is "gone".
Forget(beh, obs) ==
  [k \in DOMAIN beh |->
     IF beh[k] # "none" /\ k \notin Range(obs) THEN "gone" ELSE beh[k]]

NoneVisible == \A p \in Coords : ~visible[p]

Init ==
  /\ tiles = [p \in Coords |-> Emp]
  /\ visible = [p \in Coords |-> FALSE]
  /\ stage = "fresh"
  /\ sets = 0
  /\ observers = <<>>
  /\ roomDeads = FALSE
  /\ lastCall = "none"
  /\ behaviour = [k \in Sockets |-> "none"]
  /\ log = Called("new", <<>>, "none", <<>>)
  /\ flagged = [p \in Coords |-> 0]
  /\ gameOver = "no"
  /\ run = Idle
  /\ rooms = NoRoom
  /\ room = Unmade

\* game.set(x, y, t) while a board is built by hand.
Set(p, t) ==
  /\ stage \in {"fresh", "manual"}
  /\ NoneVisible
  /\ sets < MaxSets
  /\ tiles' = [tiles EXCEPT ![p] = t]
  /\ stage' = "manual"
  /\ sets' = sets + 1
  /\ UNCHANGED <<visible, observers, roomDeads, lastCall, behaviour, log,
                 flagged, gameOver, run, rooms, room>>

\* The boards game.init(c, sx, sy) can produce from the current one; none when
\* an argument is rejected.
Placements(c, s) ==
  IF (c < 0 \/ c >= W * H) \/ ~InBounds(s) THEN {}
  ELSE {init(tiles, M) : M \in Samples(s, c)}

\* game.init(c, sx, sy) on a fresh board.
Place(c, s) ==
  /\ stage = "fresh"
  /\ NoneVisible
  /\ tiles' \in Placements(c, s)
  /\ stage' = "placed"
  /\ UNCHANGED <<visible, sets, observers, roomDeads, lastCall, behaviour, log,
                 flagged, gameOver, run, rooms, room>>

\* game.reveal(x, y): the flood, then the flush to the observers.
GameReveal(p) ==
  LET f == reveal(observers, behaviour, roomDeads, tiles, visible, p)
  IN /\ visible' = f.visible
     /\ observers' = f.observers
     /\ roomDeads' = f.dead
     /\ behaviour' = Forget(behaviour, f.observers)
     /\ log' = Called("reveal", <<>>, "none", f.delivered)
     /\ UNCHANGED <<tiles, stage, sets, flagged, gameOver, run, rooms, room>>

\* A direct call of game.reveal(x, y).
Reveal(p) ==
  /\ GameReveal(p)
  /\ UNCHANGED lastCall

Next ==
  \/ \E p \in Coords, t \in {Min, Num(1)} : Set(p, t)
  \/ \E c \in 0..MaxMines, s \in Coords : Place(c, s)
  \/ \E p \in Coords : Reveal(p)

Spec == Init /\ [][Next]_vars

\* The games whose board comes from game.init alone.
NextPlaced ==
  \/ \E c \in 0..MaxMines, s \in Coords : Place(c, s)
  \/ \E p \in Coords : Reveal(p)

SpecPlaced == Init /\ [][NextPlaced]_vars

\* -------------------------------------------------------------- construction
\* A JavaScript number n is written as the integer 2n, so that the halves
\* stand for the numbers that are not integers.
IsInteger(x) == x % 2 = 0

\* Variant of create that looks at the ranges before the types.
createRangeFirst(w, h) ==
  IF ~(w > 0) THEN "RangeError"
  ELSE IF ~(h > 0) THEN "RangeError"
  ELSE IF ~IsInteger(w) THEN "TypeError"
  ELSE IF ~IsInteger(h) THEN "TypeError"
  ELSE "none"

\* The checks of new Board(w, h), which new Game(w, h) runs: the error
\* thrown, "none" when the board is built.
create(w, h) ==
  IF ~IsInteger(w) THEN "TypeError"
  ELSE IF ~IsInteger(h) THEN "TypeError"
  ELSE IF ~(w > 0) THEN "RangeError"
  ELSE IF ~(h > 0) THEN "RangeError"
  ELSE "none"

\* The checks of game.init(c, sx, sy) on the W x H board.
initError(c, s) ==
  IF ~IsInteger(c) THEN "TypeError"
  ELSE IF c < 0 \/ c >= 2 * (W * H) THEN "RangeError"
  ELSE IF s[1] < 0 \/ s[1] >= W \/ s[2] < 0 \/ s[2] >= H THEN "RangeError"
  ELSE "none"

\* The arguments tried: around zero and around the model's board size.
Widths == {-2, -1, 0, 1} \cup {2 * W - 1, 2 * W, 2 * W + 1}
Heights == {-2, -1, 0, 1} \cup {2 * H - 1, 2 * H, 2 * H + 1}
Counts ==
  (-2..(2 * MaxMines + 1))
    \cup {2 * (W * H - 1), 2 * (W * H) - 1, 2 * (W * H)}
Wide == (-1..W) \X (-1..H)

\* No game exists yet.
InitCreate ==
  /\ tiles = [p \in Coords |-> Emp]
  /\ visible = [p \in Coords |-> FALSE]
  /\ stage = "absent"
  /\ sets = 0
  /\ observers = <<>>
  /\ roomDeads = FALSE
  /\ lastCall = "none"
  /\ behaviour = [k \in Sockets |-> "none"]
  /\ log = Called("new", <<>>, "none", <<>>)
  /\ flagged = [p \in Coords |-> 0]
  /\ gameOver = "no"
  /\ run = Idle
  /\ rooms = NoRoom
  /\ room = Unmade

\* new Game(w, h).  The model holds a W x H board, so the only accepted
\* arguments tried are W and H themselves.
Create(w, h) ==
  /\ stage = "absent"
  /\ create(w, h) = "none" => (w = 2 * W /\ h = 2 * H)
  /\ stage' = (IF create(w, h) = "none" THEN "fresh" ELSE "absent")
  /\ log' = Called("create", <<w, h>>, create(w, h), <<>>)
  /\ UNCHANGED <<tiles, visible, sets, observers, roomDeads, lastCall,
                 behaviour, flagged, gameOver, run, rooms, room>>

\* Variant of InitCall with a plausible slip: the mines are drawn and set
\* once the count is accepted, before the anchor is looked at.
InitCallPlaceFirst(c, s) ==
  /\ stage = "fresh"
  /\ NoneVisible
  /\ log.op = "create"
  /\ IF initError(c, s) = "none"
     THEN /\ tiles' \in Placements(c \div 2, s)
          /\ stage' = "placed"
     ELSE IF initError(c, <<0, 0>>) = "none"
     THEN /\ \E M \in Samples(s, c \div 2) : tiles' = SetMines(tiles, M)
          /\ UNCHANGED stage
     ELSE UNCHANGED <<tiles, stage>>
  /\ log' = Called("init", <<c, s>>, initError(c, s), <<>>)
  /\ UNCHANGED <<visible, sets, observers, roomDeads, lastCall, behaviour,
                 flagged, gameOver, run, rooms, room>>

\* The first game.init(c, sx, sy) of a new game, with any arguments.
InitCall(c, s) ==
  /\ stage = "fresh"
  /\ NoneVisible
  /\ log.op = "create"
  /\ IF initError(c, s) = "none"
     THEN /\ tiles' \in Placements(c \div 2, s)
          /\ stage' = "placed"
     ELSE UNCHANGED <<tiles, stage>>
  /\ log' = Called("init", <<c, s>>, initError(c, s), <<>>)
  /\ UNCHANGED <<visible, sets, observers, roomDeads, lastCall, behaviour,
                 flagged, gameOver, run, rooms, room>>

NextCreate ==
  \/ \E w \in Widths, h \in Heights : Create(w, h)
  \/ \E c \in Counts, s \in Wide : InitCall(c, s)

SpecCreate == InitCreate /\ [][NextCreate]_vars

\* ----------------------------------------------------------------- observers
\* game.observe(observer) by an observer that behaves as b.
Observe(k, b) ==
  /\ k \notin Range(observers)
  /\ observers' = Append(observers, k)
  /\ behaviour' = [behaviour EXCEPT ![k] = b]
  /\ log' = Called("observe", <<>>, "none", <<>>)
  /\ UNCHANGED <<tiles, visible, stage, sets, roomDeads, lastCall, flagged,
                 gameOver, run, rooms, room>>

\* A call, outside any flush, of the handle game.observe returned to k.
Dispose(k) ==
  /\ k \in Range(observers)
  /\ observers' = dispose(observers, k)
  /\ behaviour' = [behaviour EXCEPT ![k] = "gone"]
  /\ log' = Called("dispose", <<>>, "none", <<>>)
  /\ UNCHANGED <<tiles, visible, stage, sets, roomDeads, lastCall, flagged,
                 gameOver, run, rooms, room>>

\* The coordinate-taking operations of Board and Game.
BoardOps == {"get", "set", "apply", "isVisible", "setVisible", "reveal"}

\* Variant of outOfBounds that lets x = w and y = h through.
outOfBoundsOffByOne(p) == p[1] < 0 \/ p[1] > W \/ p[2] < 0 \/ p[2] > H

\* The coordinates tried outside the board: one step off each edge, and the
\* corner (w, h).
Outside == {<<-1, 0>>, <<W, 0>>, <<0, -1>>, <<0, H>>, <<W, H>>}

\* The guard every coordinate-taking operation of Board starts with.
outOfBounds(p) == p[1] < 0 \/ p[1] >= W \/ p[2] < 0 \/ p[2] >= H

\* A call of a coordinate-taking operation with a coordinate outside the
\* board.  The guard throws RangeError first; game.reveal gets it from
\* setVisible, before #accumulate and #notify.  Past the guard, the missing
\* row would be indexed and a TypeError thrown.  A refused call leaves the
\* game as it was, so it is tried after calls that went through only.
RangeCall(op, p) ==
  /\ stage # "absent"
  /\ log.error = "none"
  /\ log' = Called(op, p, IF outOfBounds(p) THEN "RangeError"
                          ELSE "TypeError", <<>>)
  /\ UNCHANGED <<tiles, visible, stage, sets, observers, roomDeads, lastCall,
                 behaviour, flagged, gameOver, run, rooms, room>>

\* A game watched by observers that only listen.
NextWatch ==
  \/ \E k \in Sockets : Observe(k, "quiet")
  \/ \E k \in Sockets : Dispose(k)
  \/ \E p \in Coords : Reveal(p)
  \/ \E op \in BoardOps, p \in Outside : RangeCall(op, p)

SpecWatch == Init /\ [][NextWatch]_vars

\* A game watched by observers that may unsubscribe or reveal inside their
\* call.
Behaviours == {"quiet", "leave", "evict", "poke"}

NextObserve ==
  \/ \E k \in Sockets, b \in Behaviours : Observe(k, b)
  \/ \E k \in Sockets : Dispose(k)
  \/ \E p \in Coords : Reveal(p)

SpecObserve == Init /\ [][NextObserve]_vars

\* ------------------------------------------------------ array-based server
\* generateBoard(width, height, numMines) with the mines at M: -1 is Min, 0
\* is Emp and a count n is Num(n).
generateBoard(M) ==
  [p \in Coords |->
     IF p \in M THEN Min
     ELSE LET count ==
                Cardinality({d \in (-1..1) \X (-1..1) :
                               /\ d # <<0, 0>>
                               /\ InBounds(<<p[1] + d[1], p[2] + d[2]>>)
                               /\ <<p[1] + d[1], p[2] + d[2]>> \in M})
          IN IF count = 0 THEN Emp ELSE Num(count)]

\* The eight cells around <<x, y>> in the order the flood pushes them.
pushed(p) ==
  [i \in 1..8 |->
     LET j == IF i < 5 THEN i - 1 ELSE i
     IN <<p[1] + (j % 3) - 1, p[2] + (j \div 3) - 1>>]

\* Variant of floodStack that steps over nothing but revealed cells.
RECURSIVE floodStackThroughFlags(_, _, _, _)
floodStackThroughFlags(stack, rev, til, flg) ==
  IF stack = <<>> THEN rev
  ELSE LET p == stack[Len(stack)]
           rest == SubSeq(stack, 1, Len(stack) - 1)
       IN IF ~InBounds(p) THEN floodStackThroughFlags(rest, rev, til, flg)
          ELSE IF rev[p] THEN floodStackThroughFlags(rest, rev, til, flg)
          ELSE floodStackThroughFlags(
                 IF til[p].t = TileEmp THEN rest \o pushed(p) ELSE rest,
                 [rev EXCEPT ![p] = TRUE], til, flg)

\* The stack loop of revealTile: pop a cell, step over it when it is off the
\* board, revealed or marked, else reveal it and push the cells around a 0.
RECURSIVE floodStack(_, _, _, _)
floodStack(stack, rev, til, flg) ==
  IF stack = <<>> THEN rev
  ELSE LET p == stack[Len(stack)]
           rest == SubSeq(stack, 1, Len(stack) - 1)
       IN IF ~InBounds(p) THEN floodStack(rest, rev, til, flg)
          ELSE IF rev[p] \/ flg[p] # 0 THEN floodStack(rest, rev, til, flg)
          ELSE floodStack(
                 IF til[p].t = TileEmp THEN rest \o pushed(p) ELSE rest,
                 [rev EXCEPT ![p] = TRUE], til, flg)

\* Variant of revealTile that looks at the revealed array alone before it
\* reveals.
revealTileUnmarked(til, rev, flg, over, p) ==
  IF over # "no" THEN [revealed |-> rev, gameOver |-> over, did |-> "over"]
  ELSE IF rev[p]
  THEN [revealed |-> rev, gameOver |-> over, did |-> "revealed"]
  ELSE IF til[p].t = TileMin
  THEN [revealed |-> [q \in Coords |-> rev[q] \/ til[q].t = TileMin],
        gameOver |-> "loss", did |-> "bomb"]
  ELSE LET r == IF til[p].t = TileEmp
                THEN floodStackThroughFlags(<<p>>, rev, til, flg)
                ELSE [rev EXCEPT ![p] = TRUE]
           win == \A q \in Coords : ~(til[q].t # TileMin /\ ~r[q])
       IN [revealed |-> r, gameOver |-> IF win THEN "win" ELSE over,
           did |-> "update"]

\* socket.on('revealTile'): what becomes of room.state.revealed and
\* room.state.gameOver, and which way the handler went.
revealTile(til, rev, flg, over, p) ==
  IF over # "no" THEN [revealed |-> rev, gameOver |-> over, did |-> "over"]
  ELSE IF rev[p]
  THEN [revealed |-> rev, gameOver |-> over, did |-> "revealed"]
  ELSE IF flg[p] # 0
  THEN [revealed |-> rev, gameOver |-> over, did |-> "marked"]
  ELSE IF til[p].t = TileMin
  THEN [revealed |-> [q \in Coords |-> rev[q] \/ til[q].t = TileMin],
        gameOver |-> "loss", did |-> "bomb"]
  ELSE LET r == IF til[p].t = TileEmp
                THEN floodStack(<<p>>, rev, til, flg)
                ELSE [rev EXCEPT ![p] = TRUE]
           win == \A q \in Coords : ~(til[q].t # TileMin /\ ~r[q])
       IN [revealed |-> r, gameOver |-> IF win THEN "win" ELSE over,
           did |-> "update"]

\* Variant of nextVal for a mark that is either set or not.
nextValToggle(currentVal) == (currentVal + 1) % 2

\* The right-click handler's nextVal: 0 -> 1 -> 2 -> 0.
nextVal(currentVal) == (currentVal + 1) % 3

\* socket.on('startGame'): a board with RoomMines mines, nothing revealed,
\* nothing marked.
StartGame(M) ==
  /\ stage = "fresh"
  /\ NoneVisible
  /\ Cardinality(M) = RoomMines
  /\ tiles' = generateBoard(M)
  /\ stage' = "started"
  /\ log' = Called("startGame", <<>>, "none", <<>>)
  /\ UNCHANGED <<visible, sets, observers, roomDeads, lastCall, behaviour,
                 flagged, gameOver, run, rooms, room>>

\* A left click sent to socket.on('revealTile').
RevealTile(p) ==
  /\ stage = "started"
  /\ LET r == revealTile(tiles, visible, flagged, gameOver, p)
     IN /\ visible' = r.revealed
        /\ gameOver' = r.gameOver
        /\ log' = Called("revealTile", <<>>, r.did, <<>>)
  /\ UNCHANGED <<tiles, stage, sets, observers, roomDeads, lastCall, behaviour,
                 flagged, run, rooms, room>>

\* A right click: the client's handler works out the next mark of a cell
\* that is not revealed and socket.on('toggleFlag') stores it.  One cell is
\* marked at a time.
ToggleFlag(p) ==
  /\ stage = "started"
  /\ gameOver = "no"
  /\ ~visible[p]
  /\ \A q \in Coords \ {p} : flagged[q] = 0
  /\ flagged' = [flagged EXCEPT ![p] = nextVal(flagged[p])]
  /\ log' = Called("toggleFlag", <<>>, "none", <<>>)
  /\ UNCHANGED <<tiles, visible, stage, sets, observers, roomDeads, lastCall,
                 behaviour, gameOver, run, rooms, room>>

NextServer ==
  \/ \E M \in SUBSET Coords : StartGame(M)
  \/ \E p \in Coords : RevealTile(p)
  \/ \E p \in Coords : ToggleFlag(p)

SpecServer == Init /\ [][NextServer]_vars

\* ----------------------------------------------------------- a game restarted
\* Variant of toggleFlag that stores the mark whether the game is over or not.
toggleFlagAlways(flg, over, p, state) ==
  [flagged |-> [flg EXCEPT ![p] = state], did |-> "flagUpdate"]

\* socket.on('toggleFlag'): what becomes of room.state.flagged, and whether
\* the handler returned at its first test or went on to emit 'flagUpdate'.
toggleFlag(flg, over, p, state) ==
  IF over # "no" THEN [flagged |-> flg, did |-> "over"]
  ELSE [flagged |-> [flg EXCEPT ![p] = state], did |-> "flagUpdate"]

\* A toggleFlag request.  While the game goes on it is the one the client
\* sends on a right click: the next mark of a cell that is not revealed, one
\* cell being marked at a time.  Once the game is over any request is tried.
OnToggleFlag(p, state) ==
  /\ stage = "started"
  /\ gameOver = "no" =>
       /\ ~visible[p]
       /\ \A q \in Coords \ {p} : flagged[q] = 0
       /\ state = nextVal(flagged[p])
  /\ LET r == toggleFlag(flagged, gameOver, p, state)
     IN /\ flagged' = r.flagged
        /\ log' = Called("toggleFlag", <<>>, r.did, <<>>)
  /\ UNCHANGED <<tiles, visible, stage, sets, observers, roomDeads, lastCall,
                 behaviour, gameOver, run, rooms, room>>

\* socket.on('restartGame') in a room whose game was started.
RestartGame ==
  /\ stage = "started"
  /\ gameOver' = "no"
  /\ visible' = [p \in Coords |-> FALSE]
  /\ flagged' = [p \in Coords |-> 0]
  /\ log' = Called("restartGame", <<>>, "none", <<>>)
  /\ UNCHANGED <<tiles, stage, sets, observers, roomDeads, lastCall,
                 behaviour, run, rooms, room>>

NextRestart ==
  \/ \E M \in SUBSET Coords : StartGame(M)
  \/ \E p \in Coords : RevealTile(p)
  \/ \E p \in Coords, state \in 0..2 : OnToggleFlag(p, state)
  \/ RestartGame

SpecRestart == Init /\ [][NextRestart]_vars

\* ------------------------------------------------------------------- chord
\* The neighbours of p that carry a flag.
flaggedNeighbors(flg, p) == {q \in Range(Neighbors(p)) : flg[q] = 1}

\* The neighbours of p a chord reveals: hidden and without a flag.
chordTargets(rev, flg, p) ==
  {q \in Range(Neighbors(p)) : ~rev[q] /\ flg[q] # 1}

\* The flood routine started at each cell of the sequence qs in turn.
RECURSIVE floodEach(_, _, _, _)
floodEach(qs, rev, til, flg) ==
  IF qs = <<>> THEN rev
  ELSE LET q == Head(qs)
           r == IF rev[q] THEN rev
                ELSE IF til[q].t = TileEmp
                THEN floodStack(pushed(q), [rev EXCEPT ![q] = TRUE], til, flg)
                ELSE [rev EXCEPT ![q] = TRUE]
       IN floodEach(Tail(qs), r, til, flg)

\* Variant of chordTile that does not compare the flags with the number.
chordTileAlways(til, rev, flg, over, p) ==
  IF over # "no" THEN [revealed |-> rev, gameOver |-> over, did |-> "over"]
  ELSE IF ~rev[p] \/ til[p].t # TileNum
  THEN [revealed |-> rev, gameOver |-> over, did |-> "invalid"]
  ELSE LET targets == chordTargets(rev, flg, p)
           qs == SelectSeq(Neighbors(p), LAMBDA q : q \in targets)
           r == floodEach(qs, rev, til, flg)
           loss == \E q \in Coords : r[q] /\ til[q].t = TileMin
           win == \A q \in Coords : ~(til[q].t # TileMin /\ ~r[q])
       IN [revealed |-> r,
           gameOver |-> IF loss THEN "loss" ELSE IF win THEN "win" ELSE over,
           did |-> "update"]

\* A chord request on cell p: refused unless p is a revealed number whose
\* flagged neighbours are as many as the number; then every hidden neighbour
\* without a flag is revealed by the flood routine.
chordTile(til, rev, flg, over, p) ==
  IF over # "no" THEN [revealed |-> rev, gameOver |-> over, did |-> "over"]
  ELSE IF ~rev[p] \/ til[p].t # TileNum
  THEN [revealed |-> rev, gameOver |-> over, did |-> "invalid"]
  ELSE IF Cardinality(flaggedNeighbors(flg, p)) # til[p].n
  THEN [revealed |-> rev, gameOver |-> over, did |-> "flagMismatch"]
  ELSE LET targets == chordTargets(rev, flg, p)
           qs == SelectSeq(Neighbors(p), LAMBDA q : q \in targets)
           r == floodEach(qs, rev, til, flg)
           loss == \E q \in Coords : r[q] /\ til[q].t = TileMin
           win == \A q \in Coords : ~(til[q].t # TileMin /\ ~r[q])
       IN [revealed |-> r,
           gameOver |-> IF loss THEN "loss" ELSE IF win THEN "win" ELSE over,
           did |-> "update"]

\* A double click on a revealed number, sent as 'chordTile'.
ChordTile(p) ==
  /\ stage = "started"
  /\ visible[p]
  /\ tiles[p].t = TileNum
  /\ LET r == chordTile(tiles, visible, flagged, gameOver, p)
     IN /\ visible' = r.revealed
        /\ gameOver' = r.gameOver
        /\ log' = Called("chordTile", <<>>, r.did, <<>>)
  /\ UNCHANGED <<tiles, stage, sets, observers, roomDeads, lastCall, behaviour,
                 flagged, run, rooms, room>>

NextChord ==
  \/ \E M \in SUBSET Coords : StartGame(M)
  \/ \E p \in Coords : RevealTile(p)
  \/ \E p \in Coords : ToggleFlag(p)
  \/ \E p \in Coords : ChordTile(p)

SpecChord == Init /\ [][NextChord]_vars

\* ------------------------------------------------------- the solver alone
\* The solver is handed a tile array and a visibility array; nothing makes
\* the visibility one a flood could have produced.
\* A tile array as game.init fills it in, with the mines at M.
Layout(M) ==
  /\ stage = "fresh"
  /\ NoneVisible
  /\ tiles' = init(tiles, M)
  /\ stage' = "placed"
  /\ log' = Called("layout", <<>>, "none", <<>>)
  /\ UNCHANGED <<visible, sets, observers, roomDeads, lastCall, behaviour,
                 flagged, gameOver, run, rooms, room>>

\* One more cell of the visibility array is true.
Show(p) ==
  /\ ~visible[p]
  /\ visible' = [visible EXCEPT ![p] = TRUE]
  /\ log' = Called("setVisible", <<>>, "none", <<>>)
  /\ UNCHANGED <<tiles, stage, sets, observers, roomDeads, lastCall, behaviour,
                 flagged, gameOver, run, rooms, room>>

\* isAmbiguous(w, h, isVisible, get) is called and its answer kept.
Ask ==
  /\ log.op # "isAmbiguous"
  /\ log' = Called("isAmbiguous", <<>>,
                   IF isAmbiguous(visible, tiles) THEN "true" ELSE "false",
                   <<>>)
  /\ UNCHANGED <<tiles, visible, stage, sets, observers, roomDeads, lastCall,
                 behaviour, flagged, gameOver, run, rooms, room>>

NextSolver ==
  \/ \E M \in SUBSET Coords : Layout(M)
  \/ \E p \in Coords, t \in {Min, Num(1)} : Set(p, t)
  \/ \E p \in Coords : Show(p)
  \/ Ask

SpecSolver == Init /\ [][NextSolver]_vars

\* ------------------------------------------------------- the row scenario
\* The solver on a row of five cells: width and height of the board.
RowSize == <<5, 1>>

RowCells == Range(boardOn(RowSize[1], RowSize[2]))

\* The tile array of the row with the mines at M and the numbers they make.
rowTiles(M) ==
  [p \in RowCells |->
     IF p \in M THEN Min
     ELSE LET n == Cardinality(
                     {q \in Range(NeighborsOn(RowSize[1], RowSize[2], p)) :
                        q \in M})
          IN IF n > 0 THEN Num(n) ELSE Emp]

InitRow ==
  /\ tiles = [p \in RowCells |-> Emp]
  /\ visible = [p \in RowCells |-> FALSE]
  /\ stage = "fresh"
  /\ sets = 0
  /\ observers = <<>>
  /\ roomDeads = FALSE
  /\ lastCall = "none"
  /\ behaviour = [k \in Sockets |-> "none"]
  /\ log = Called("new", <<>>, "none", <<>>)
  /\ flagged = [p \in Coords |-> 0]
  /\ gameOver = "no"
  /\ run = Idle
  /\ rooms = NoRoom
  /\ room = Unmade

LayoutRow(M) ==
  /\ stage = "fresh"
  /\ \A p \in RowCells : ~visible[p]
  /\ tiles' = rowTiles(M)
  /\ stage' = "placed"
  /\ log' = Called("layout", <<>>, "none", <<>>)
  /\ UNCHANGED <<visible, sets, observers, roomDeads, lastCall, behaviour,
                 flagged, gameOver, run, rooms, room>>

\* isAmbiguous(5, 1, isVisible, get) is called and its answer kept.
AskRow ==
  /\ log.op # "isAmbiguous"
  /\ log' = Called("isAmbiguous", <<>>,
                   IF isAmbiguousOn(RowSize[1], RowSize[2], visible, tiles)
                   THEN "true" ELSE "false",
                   <<>>)
  /\ UNCHANGED <<tiles, visible, stage, sets, observers, roomDeads, lastCall,
                 behaviour, flagged, gameOver, run, rooms, room>>

NextRow ==
  \/ \E M \in SUBSET RowCells : LayoutRow(M)
  \/ \E p \in RowCells : Show(p)
  \/ AskRow

SpecRow == InitRow /\ [][NextRow]_vars

\* ------------------------------------------------------------ a large board
\* A board of more than 480 cells: a row of 481.  The mines lie in the
\* first five cells.
BigSize == <<481, 1>>

BigCells == {<<x, y>> : x \in 0..(BigSize[1] - 1), y \in 0..(BigSize[2] - 1)}

NearCells == {p \in BigCells : p[1] < 5}

\* The tile array of the large board with the mines at M and the numbers
\* they make.
bigTiles(M) ==
  [p \in BigCells |->
     IF p \in M THEN Min
     ELSE LET n == Cardinality(
                     {q \in Range(NeighborsOn(BigSize[1], BigSize[2], p)) :
                        q \in M})
          IN IF n > 0 THEN Num(n) ELSE Emp]

InitBig ==
  /\ tiles = [p \in BigCells |-> Emp]
  /\ visible = [p \in BigCells |-> FALSE]
  /\ stage = "fresh"
  /\ sets = 0
  /\ observers = <<>>
  /\ roomDeads = FALSE
  /\ lastCall = "none"
  /\ behaviour = [k \in Sockets |-> "none"]
  /\ log = Called("new", <<>>, "none", <<>>)
  /\ flagged = [p \in Coords |-> 0]
  /\ gameOver = "no"
  /\ run = Idle
  /\ rooms = NoRoom
  /\ room = Unmade

LayoutBig(M) ==
  /\ stage = "fresh"
  /\ \A p \in NearCells : ~visible[p]
  /\ tiles' = bigTiles(M)
  /\ stage' = "placed"
  /\ log' = Called("layout", <<>>, "none", <<>>)
  /\ UNCHANGED <<visible, sets, observers, roomDeads, lastCall, behaviour,
                 flagged, gameOver, run, rooms, room>>

\* game.reveal(x, y) of a hidden Number cell: revealRec makes the cell visible
\* and, the tile not being Empty, goes no further.
RevealNumber(p) ==
  /\ stage = "placed"
  /\ tiles[p].t = TileNum
  /\ Show(p)

\* game.isGameOver() is called on the large board and its answer kept.
AskBig ==
  /\ log.op # "isGameOver"
  /\ log' = Called("isGameOver", <<>>,
                   isGameOverOn(BigSize[1], BigSize[2], tiles, visible),
                   <<>>)
  /\ UNCHANGED <<tiles, visible, stage, sets, observers, roomDeads, lastCall,
                 behaviour, flagged, gameOver, run, rooms, room>>

NextBig ==
  \/ \E M \in SUBSET NearCells : LayoutBig(M)
  \/ \E p \in NearCells : RevealNumber(p)
  \/ AskBig

SpecBig == InitBig /\ [][NextBig]_vars

\* ------------------------------------------------------------ step by step
\* game.reveal and game.isGameOver executed one call and one loop iteration
\* at a time.  run.stack is the call stack: a frame of revealRec is the cell
\* and the number of neighbours its loop has handled, a frame of solve is
\* idx and the number of values tried.  run.expect is what the definitions
\* above give for the same call.

\* Variant of stepRevealRec in which a frame whose loop is over starts the
\* loop again.
stepRevealRecRestart(stack, vis, til) ==
  LET top == stack[Len(stack)]
      rest == SubSeq(stack, 1, Len(stack) - 1)
  IN IF til[top.p].t # TileEmp THEN [stack |-> rest, visible |-> vis]
     ELSE IF top.i = 8
     THEN [stack |-> Append(rest, [top EXCEPT !.i = 0]), visible |-> vis]
     ELSE LET q == surrounding(top.p)[top.i + 1]
              next == Append(rest, [top EXCEPT !.i = @ + 1])
          IN IF InBounds(q) /\ apply(til, vis, q) = Hidden
             THEN [stack |-> Append(next, [p |-> q, i |-> 0]),
                   visible |-> [vis EXCEPT ![q] = TRUE]]
             ELSE [stack |-> next, visible |-> vis]

\* One step of revealRec: the top frame returns when its tile is not Empty
\* or its loop is over; else the loop takes the next neighbour and calls
\* revealRec on it when it is on the board and hidden, which makes it
\* visible.
stepRevealRec(stack, vis, til) ==
  LET top == stack[Len(stack)]
      rest == SubSeq(stack, 1, Len(stack) - 1)
  IN IF til[top.p].t # TileEmp \/ top.i = 8
     THEN [stack |-> rest, visible |-> vis]
     ELSE LET q == surrounding(top.p)[top.i + 1]
              next == Append(rest, [top EXCEPT !.i = @ + 1])
          IN IF InBounds(q) /\ apply(til, vis, q) = Hidden
             THEN [stack |-> Append(next, [p |-> q, i |-> 0]),
                   visible |-> [vis EXCEPT ![q] = TRUE]]
             ELSE [stack |-> next, visible |-> vis]

\* Variant of CallReveal with a plausible slip: the visibility of the target
\* is flipped, not set.
CallRevealToggle(p) ==
  /\ run.op = "idle"
  /\ visible' = [visible EXCEPT ![p] = ~@]
  /\ run' = [Idle EXCEPT
               !.op = "reveal",
               !.stack = <<[p |-> p, i |-> 0]>>,
               !.expect = revealRec([visible |-> visible, changes |-> <<>>],
                                    tiles, p).visible]
  /\ UNCHANGED <<tiles, stage, sets, observers, roomDeads, lastCall,
                 behaviour, log, flagged, gameOver, rooms, room>>

\* game.reveal(x, y) is called: revealRec(x, y) is entered.
CallReveal(p) ==
  /\ run.op = "idle"
  /\ visible' = [visible EXCEPT ![p] = TRUE]
  /\ run' = [Idle EXCEPT
               !.op = "reveal",
               !.stack = <<[p |-> p, i |-> 0]>>,
               !.expect = revealRec([visible |-> visible, changes |-> <<>>],
                                    tiles, p).visible]
  /\ UNCHANGED <<tiles, stage, sets, observers, roomDeads, lastCall, behaviour,
                 log, flagged, gameOver, rooms, room>>

\* The flood goes on by one step; the call returns when the stack is empty.
StepReveal ==
  /\ run.op = "reveal"
  /\ LET r == stepRevealRec(run.stack, visible, tiles)
     IN /\ visible' = r.visible
        /\ run' = IF r.stack = <<>> THEN Idle
                  ELSE [run EXCEPT !.stack = r.stack]
  /\ UNCHANGED <<tiles, stage, sets, observers, roomDeads, lastCall, behaviour,
                 log, flagged, gameOver, rooms, room>>

\* The solver has its answer.
answered(r, ambiguous) ==
  [Idle EXCEPT !.answer = IF ambiguous THEN "true" ELSE "false",
               !.expect = r.expect]

\* solve(idx), one step of the top frame: a complete assignment is pushed to
\* solutions; else 0 is tried, then 1, each followed by solve(idx + 1) when
\* check(idx) passes; then the frame returns.
stepSolve(r) ==
  LET n == Len(r.componentVars)
      top == r.stack[Len(r.stack)]
      rest == SubSeq(r.stack, 1, Len(r.stack) - 1)
      a == [r.assignment EXCEPT ![top.idx] = top.tried]
      tried == Append(rest, [top EXCEPT !.tried = @ + 1])
  IN IF top.idx = n + 1
     THEN [r EXCEPT !.solutions = Append(@, r.assignment), !.stack = rest]
     ELSE IF top.tried = 2 THEN [r EXCEPT !.stack = rest]
     ELSE [r EXCEPT
             !.assignment = a,
             !.stack = IF check(r.cc, a, top.idx)
                       THEN Append(tried, [idx |-> top.idx + 1, tried |-> 0])
                       ELSE tried]

\* One step of "3. Solve each component".
stepSolver(r) ==
  CASE r.phase = "component" ->
         IF r.i > r.numVars THEN answered(r, TRUE)
         ELSE IF r.i \in r.visited THEN [r EXCEPT !.i = @ + 1]
         ELSE [r EXCEPT !.q = <<r.i>>, !.visited = @ \cup {r.i},
                        !.componentVars = <<>>, !.phase = "traverse"]
    [] r.phase = "traverse" ->
         IF Len(r.q) = 0
         THEN [r EXCEPT
                 !.cc = compConstraints(r.constraints, r.componentVars),
                 !.assignment = [j \in 1..Len(r.componentVars) |-> 0],
                 !.solutions = <<>>,
                 !.stack = <<[idx |-> 1, tried |-> 0]>>,
                 !.phase = "solve"]
         ELSE LET u == r.q[Len(r.q)]
                  pu == PushUnvisited(SubSeq(r.q, 1, Len(r.q) - 1),
                                      r.visited, r.adj[u], 1)
              IN [r EXCEPT !.q = pu.q, !.visited = pu.visited,
                           !.componentVars = Append(@, u)]
    [] r.phase = "solve" ->
         IF r.stack # <<>> THEN stepSolve(r)
         ELSE IF Len(r.solutions) = 0
         THEN [r EXCEPT !.i = @ + 1, !.phase = "component"]
         ELSE IF HasAlwaysSafe(r.solutions, Len(r.componentVars))
         THEN answered(r, FALSE)
         ELSE [r EXCEPT !.i = @ + 1, !.phase = "component"]

\* game.isGameOver() is called.  The scan for a visible mine and a hidden
\* safe cell and the solver's loops over the board are for-loops; when they
\* do not settle the answer the component search starts.
CallIsGameOver ==
  /\ run.op = "idle"
  /\ LET loss == \E k \in 1..(W * H) :
                   visible[board[k]] /\ tiles[board[k]].t = TileMin
         win == \A k \in 1..(W * H) :
                  ~(~visible[board[k]] /\ tiles[board[k]].t # TileMin)
         st == BuildConstraints(1, [idToHiddenTile |-> <<>>,
                                    constraints |-> <<>>,
                                    hasVisible |-> FALSE, safe |-> FALSE],
                                visible, tiles)
         numVars == Len(st.idToHiddenTile)
     IN run' = IF loss \/ win \/ st.safe \/ Len(st.constraints) = 0
               THEN Idle
               ELSE [Idle EXCEPT
                       !.op = "isGameOver",
                       !.phase = "component",
                       !.i = 1,
                       !.constraints = st.constraints,
                       !.numVars = numVars,
                       !.adj = BuildAdj([u \in 1..numVars |-> <<>>],
                                        st.constraints, 1),
                       !.expect = IF isAmbiguous(visible, tiles)
                                  THEN "true" ELSE "false"]
  /\ UNCHANGED <<tiles, visible, stage, sets, observers, roomDeads, lastCall,
                 behaviour, log, flagged, gameOver, rooms, room>>

\* The solver goes on by one step; the call returns when it has its answer.
StepSolver ==
  /\ run.op = "isGameOver"
  /\ LET r == stepSolver(run)
     IN run' = IF r.answer # "none" THEN Idle ELSE r
  /\ UNCHANGED <<tiles, visible, stage, sets, observers, roomDeads, lastCall,
                 behaviour, log, flagged, gameOver, rooms, room>>

NextRun ==
  \/ \E p \in Coords, t \in {Min, Num(1)} : run.op = "idle" /\ Set(p, t)
  \/ \E c \in 0..MaxMines, s \in Coords : run.op = "idle" /\ Place(c, s)
  \/ \E p \in Coords : CallReveal(p)
  \/ StepReveal
  \/ CallIsGameOver
  \/ StepSolver

SpecRun == Init /\ [][NextRun]_vars

\* A call that has begun is executed to its end.
SpecRunFair == SpecRun /\ WF_vars(StepReveal) /\ WF_vars(StepSolver)

\* --------------------------------------------------------------- transport
\* io.on("connection"): the socket subscribes its callback to the room's game.
Connect(k) == Observe(k, "quiet")

\* socket.on("disconnect"): unsubscribe() removes the callback.
Disconnect(k) == Dispose(k)

\* socket.on("reveal", ({ x, y }) => game.reveal(x, y)) of a connected socket.
OnReveal(k, p) ==
  /\ k \in Range(observers)
  /\ lastCall' = (IF roomDeads THEN "dead" ELSE "live")
  /\ GameReveal(p)

\* The room's game gets its RoomMines mines before the first reveal.
NextRoom ==
  \/ \E s \in Coords : Place(RoomMines, s)
  \/ \E k \in Sockets : Connect(k)
  \/ \E k \in Sockets : Disconnect(k)
  \/ \E k \in Sockets, p \in Coords : OnReveal(k, p)

SpecRoom == Init /\ [][NextRoom]_vars

\* ------------------------------------------------------------------- lobby
\* One room code, on the lobby namespace and on the game namespace.  The
\* Games made for the code are numbered in the order rooms.set stored them;
\* rooms.get(room) is the one numbered rooms.made.  The room is played in a
\* ranked mode, so the end of a game is written to the statistics.
LobbyCapacity == 4
Names == 1..(LobbyCapacity + 1)

\* socket.on("create lobby"): lobbies[game] is made, with no player.
CreateLobby ==
  /\ rooms.lobby = "absent"
  /\ rooms' = [rooms EXCEPT !.lobby = "open"]
  /\ log' = Called("create lobby", <<>>, "none", <<>>)
  /\ UNCHANGED <<tiles, visible, stage, sets, observers, roomDeads, lastCall,
                 behaviour, flagged, gameOver, run, room>>

\* Variant of joinLobby that pushes the player without looking for the name
\* in the list.
joinLobbyPush(players, player) ==
  IF Len(players) >= LobbyCapacity
  THEN [players |-> players, error |-> "Lobby is full."]
  ELSE [players |-> Append(players, player), error |-> "none"]

\* socket.on("join lobby") on lobby.players: the list afterwards and the
\* error emitted.
joinLobby(players, player) ==
  IF player \in Range(players) THEN [players |-> players, error |-> "none"]
  ELSE IF Len(players) >= LobbyCapacity
  THEN [players |-> players, error |-> "Lobby is full."]
  ELSE [players |-> Append(players, player), error |-> "none"]

\* socket.on("join lobby") of a socket whose player is n: a pending timeout
\* of the lobby is cleared first.
JoinLobby(n) ==
  /\ rooms.lobby = "open"
  /\ LET r == joinLobby(rooms.players, n)
     IN /\ rooms' = [rooms EXCEPT !.players = r.players, !.timeout = "none"]
        /\ log' = Called("join lobby", <<n>>, r.error, <<>>)
  /\ UNCHANGED <<tiles, visible, stage, sets, observers, roomDeads, lastCall,
                 behaviour, flagged, gameOver, run, room>>

\* socket.on("leave lobby") of a socket whose player is n: the lobby is
\* deleted with its last player.
LeaveLobby(n) ==
  /\ rooms.lobby = "open"
  /\ n \in Range(rooms.players)
  /\ LET left == SelectSeq(rooms.players, LAMBDA q : q # n)
     IN rooms' = [rooms EXCEPT
                    !.players = left,
                    !.lobby = IF left = <<>> THEN "deleted" ELSE @]
  /\ log' = Called("leave lobby", <<n>>, "none", <<>>)
  /\ UNCHANGED <<tiles, visible, stage, sets, observers, roomDeads, lastCall,
                 behaviour, flagged, gameOver, run, room>>

\* Variant of LobbyDisconnect that deletes the emptied lobby at once.
LobbyDisconnectAtOnce(n) ==
  /\ rooms.lobby = "open"
  /\ n \in Range(rooms.players)
  /\ LET left == SelectSeq(rooms.players, LAMBDA q : q # n)
     IN rooms' = [rooms EXCEPT
                    !.players = left,
                    !.lobby = IF left = <<>> THEN "deleted" ELSE @]
  /\ log' = Called("disconnect", <<n>>, "none", <<>>)
  /\ UNCHANGED <<tiles, visible, stage, sets, observers, roomDeads, lastCall,
                 behaviour, flagged, gameOver, run, room>>

\* socket.on("disconnect") on the lobby namespace, of a socket whose player
\* n is in the lobby: the name is filtered out, and a timeout is set when the
\* list is empty.
LobbyDisconnect(n) ==
  /\ rooms.lobby = "open"
  /\ n \in Range(rooms.players)
  /\ LET left == SelectSeq(rooms.players, LAMBDA q : q # n)
     IN rooms' = [rooms EXCEPT
                    !.players = left,
                    !.timeout = IF left = <<>> THEN "pending" ELSE @]
  /\ log' = Called("disconnect", <<n>>, "none", <<>>)
  /\ UNCHANGED <<tiles, visible, stage, sets, observers, roomDeads, lastCall,
                 behaviour, flagged, gameOver, run, room>>

\* The callback of the timeout set by the disconnect handler.
LobbyTimeout ==
  /\ rooms.timeout = "pending"
  /\ rooms' = IF rooms.lobby = "open" /\ rooms.players = <<>>
              THEN [rooms EXCEPT !.lobby = "deleted", !.timeout = "none"]
              ELSE [rooms EXCEPT !.timeout = "fired"]
  /\ log' = Called("timeout", <<>>, "none", <<>>)
  /\ UNCHANGED <<tiles, visible, stage, sets, observers, roomDeads, lastCall,
                 behaviour, flagged, gameOver, run, room>>

\* socket.on("launch game") of any socket of the lobby namespace:
\* rooms.set(game, new Game(lobby.w, lobby.h, lobby.c)) while the lobby exists.
LaunchGame ==
  /\ rooms.lobby = "open"
  /\ rooms.made < MaxLaunches
  /\ rooms' = [rooms EXCEPT !.made = @ + 1]
  /\ log' = Called("launch game", <<>>, "none", <<>>)
  /\ UNCHANGED <<tiles, visible, stage, sets, observers, roomDeads, lastCall,
                 behaviour, flagged, gameOver, run, room>>

\* io.on("connection") with the room code: const game = rooms.get(room); the
\* socket's handlers and its subscription close over that Game.
Connection(k) ==
  /\ rooms.made > 0
  /\ rooms.game[k] = 0
  /\ rooms' = [rooms EXCEPT !.game[k] = rooms.made]
  /\ log' = Called("connection", <<k>>, "none", <<>>)
  /\ UNCHANGED <<tiles, visible, stage, sets, observers, roomDeads, lastCall,
                 behaviour, flagged, gameOver, run, room>>

\* socket.on("disconnect") on the game namespace.
Disconnection(k) ==
  /\ rooms.game[k] # 0
  /\ rooms' = [rooms EXCEPT !.game[k] = 0]
  /\ log' = Called("disconnection", <<k>>, "none", <<>>)
  /\ UNCHANGED <<tiles, visible, stage, sets, observers, roomDeads, lastCall,
                 behaviour, flagged, gameOver, run, room>>

\* socket.on("reveal") or socket.on("flag") of a connected socket: the call
\* goes to the Game the socket holds, which notifies its subscribers.  When
\* the game is over then, the first subscribed callback that finds the room
\* outside roomDeads puts it there, deletes the lobby with its timeout and
\* adds the game to the statistics of the users of the room; the callbacks
\* after it find the room in roomDeads.
Forward(k, ends) ==
  /\ rooms.game[k] # 0
  /\ rooms' = [rooms EXCEPT
                 !.served = rooms.game[k],
                 !.over = IF ends THEN @ \cup {rooms.game[k]} ELSE @,
                 !.recorded = IF ends /\ ~roomDeads THEN @ + 1 ELSE @,
                 !.lobby = IF ends /\ ~roomDeads /\ @ = "open"
                           THEN "deleted" ELSE @,
                 !.timeout = IF ends /\ ~roomDeads /\ rooms.lobby = "open"
                             THEN "none" ELSE @]
  /\ roomDeads' = (roomDeads \/ ends)
  /\ log' = Called("reveal", <<k>>, "none", <<>>)
  /\ UNCHANGED <<tiles, visible, stage, sets, observers, lastCall, behaviour,
                 flagged, gameOver, run, room>>

\* The launches of a room and the sockets that play its games.
NextLobby ==
  \/ CreateLobby
  \/ \E n \in Sockets : JoinLobby(n)
  \/ \E n \in Sockets : LeaveLobby(n)
  \/ LaunchGame
  \/ \E k \in Sockets : Connection(k)
  \/ \E k \in Sockets : Disconnection(k)
  \/ \E k \in Sockets, ends \in BOOLEAN : Forward(k, ends)

SpecLobby == Init /\ [][NextLobby]_vars

\* The players of a lobby: any of five names joins, leaves or disconnects,
\* and the timeout of an emptied lobby fires.
NextMembers ==
  \/ CreateLobby
  \/ \E n \in Names : JoinLobby(n)
  \/ \E n \in Names : LeaveLobby(n)
  \/ \E n \in Names : LobbyDisconnect(n)
  \/ LobbyTimeout

SpecMembers == Init /\ [][NextMembers]_vars

\* --------------------------------------------------------- joining a room
\* One room of the array-based server.  Every socket has authenticated with
\* a username of its own, so the loop of joinLobby that removes the earlier
\* sockets of the joining username removes nothing.
RoomCapacity == 4
Joiners == 1..(RoomCapacity + 1)

\* socket.on('createLobby'): the room is stored with its host as only player.
OnCreateLobby(k) ==
  /\ room = Unmade
  /\ room' = [room EXCEPT !.exists = TRUE, !.players = {k}]
  /\ UNCHANGED <<tiles, visible, stage, sets, observers, roomDeads, lastCall,
                 behaviour, log, flagged, gameOver, run, rooms>>

\* socket.on('joinLobby') up to its first await: the room is looked up and
\* its size tested; a refused request changes nothing.
JoinTest(k) ==
  /\ room.exists
  /\ k \notin room.awaiting
  /\ Cardinality(room.players) < RoomCapacity
  /\ room' = [room EXCEPT !.awaiting = @ \cup {k}]
  /\ UNCHANGED <<tiles, visible, stage, sets, observers, roomDeads, lastCall,
                 behaviour, log, flagged, gameOver, run, rooms>>

\* socket.on('joinLobby') after await readUsers(): room.players.add(socket.id)
\* on the room object the handler looked up.
JoinInsert(k) ==
  /\ k \in room.awaiting
  /\ room' = [room EXCEPT !.awaiting = @ \ {k}, !.players = @ \cup {k}]
  /\ UNCHANGED <<tiles, visible, stage, sets, observers, roomDeads, lastCall,
                 behaviour, log, flagged, gameOver, run, rooms>>

\* socket.on('disconnect'): the socket leaves room.players; the room is
\* deleted with its last player.
OnDisconnect(k) ==
  /\ room.exists
  /\ k \in room.players
  /\ room' = [room EXCEPT
                !.players = @ \ {k},
                !.exists = room.players # {k}]
  /\ UNCHANGED <<tiles, visible, stage, sets, observers, roomDeads, lastCall,
                 behaviour, log, flagged, gameOver, run, rooms>>

NextJoin ==
  \/ \E k \in Joiners : OnCreateLobby(k)
  \/ \E k \in Joiners : JoinTest(k)
  \/ \E k \in Joiners : JoinInsert(k)
  \/ \E k \in Joiners : OnDisconnect(k)

SpecJoin == Init /\ [][NextJoin]_vars

\* ------------------------------------------------------------ properties
Status == isGameOver(tiles, visible)

Mines == {p \in Coords : tiles[p].t = TileMin}
Shown == {p \in Coords : visible[p]}

MineVisible == Mines \cap Shown # {}
AllSafeVisible == (Coords \ Mines) \subseteq Shown
Ambiguous == isAmbiguous(visible, tiles)

TypeOK ==
  /\ stage \in {"absent", "fresh", "manual", "placed", "started"}
  /\ Status \in {"GAMING", "WIN", "LOSS"}
  /\ lastCall \in {"none", "live", "dead"}

\* C1 -- Terminal precedence: whenever a visible cell holds a Mine,
\* isGameOver() is Loss, also when every non-mine cell is visible or the
\* solver reports the position ambiguous.
C1_TerminalPrecedence == MineVisible => Status = "LOSS"

\* A mine is visible while every non-mine cell is visible too.
C1_Witness == MineVisible /\ AllSafeVisible /\ stage = "placed"

\* C2 -- Whenever every non-mine cell is visible and no mine is visible,
\* isGameOver() is Win.
C2_ClearedIsWin == (AllSafeVisible /\ ~MineVisible) => Status = "WIN"

\* A placed board with mines, cleared without touching a mine.
C2_Witness ==
  AllSafeVisible /\ ~MineVisible /\ stage = "placed" /\ Mines # {}

\* C3 -- Auto-resolution: no mine visible, a non-mine cell still hidden and
\* the solver reporting ambiguity make isGameOver() Win.
C3_AmbiguousIsWin ==
  (~MineVisible /\ ~AllSafeVisible /\ Ambiguous) => Status = "WIN"

\* An ambiguous position with a safe cell still hidden.
C3_Witness ==
  ~MineVisible /\ ~AllSafeVisible /\ Ambiguous /\ stage = "placed"

\* C4 -- isGameOver() is Gaming whenever no mine is visible, a non-mine cell
\* is hidden and the solver is not ambiguous; a fresh game with nothing
\* revealed is Gaming.
C4_OtherwiseGaming ==
  /\ (~MineVisible /\ ~AllSafeVisible /\ ~Ambiguous) => Status = "GAMING"
  /\ (stage = "fresh" /\ Shown = {}) => Status = "GAMING"

\* A game in progress: cells are visible and the solver can still prove a
\* hidden cell safe.
C4_Witness ==
  /\ ~MineVisible /\ ~AllSafeVisible /\ ~Ambiguous
  /\ Shown # {} /\ stage = "placed" /\ Mines # {}

\* The visibility after game.reveal on p in the current state, and what
\* isGameOver() reports then.
After(p) == revealRec([visible |-> visible, changes |-> <<>>], tiles, p).visible
ShownAfter(p) == LET a == After(p) IN {q \in Coords : a[q]}
StatusAfter(p) == isGameOver(tiles, After(p))

\* C5 (as claimed) -- Win and Loss are both terminal: once isGameOver() is Win
\* or Loss, it reports the same value after any further reveal.
C5_TerminalStays ==
  Status # "GAMING" => \A p \in Coords : StatusAfter(p) = Status

\* C5 (amended) -- Loss is terminal: a reveal made when isGameOver() is Loss
\* leaves it Loss.  A Win with every non-mine cell visible is never followed
\* by Gaming: it stays Win or becomes Loss.
C5_LossStays ==
  /\ Status = "LOSS" => \A p \in Coords : StatusAfter(p) = "LOSS"
  /\ (AllSafeVisible /\ Status = "WIN") =>
       \A p \in Coords : StatusAfter(p) # "GAMING"

\* Reveals went on after the game was over until the whole board was visible.
C5_Witness ==
  Status = "LOSS" /\ Shown = Coords /\ stage = "placed" /\ Mines # Coords

\* C6 -- After the room's game has reached Win or Loss (the room is in
\* roomDeads), the transport forwards no reveal into the game.
C6_NoForwardAfterDead == lastCall # "dead"

\* Two distinct cells that touch, diagonals included.
Adjacent(q, r) ==
  /\ q # r
  /\ q[1] - r[1] \in {-1, 0, 1}
  /\ q[2] - r[2] \in {-1, 0, 1}

\* The Empty cells reached from the Empty cells F, R being the cells reached
\* before: the least set closed under stepping from an Empty cell to an Empty
\* cell that touches it.
RECURSIVE Grow(_, _)
Grow(R, F) ==
  LET N == {q \in Coords \ R : /\ tiles[q].t = TileEmp
                               /\ \E r \in F : Adjacent(q, r)}
  IN IF N = {} THEN R ELSE Grow(R \cup N, N)

\* The cells reachable from the Empty cell p through 8-connected Empty cells,
\* plus every in-bounds neighbour of those Empty cells.
Expected(p) ==
  LET region == Grow({p}, {p})
  IN region \cup {q \in Coords : \E r \in region : Adjacent(q, r)}

\* C7 -- Flood fill result: reveal on a hidden Empty cell makes visible
\* exactly the cells reachable from it through 8-connected Empty cells plus
\* every in-bounds neighbour of those Empty cells; reveal on a Number cell
\* makes only that cell visible; every other cell keeps its visibility.
C7_FloodResult ==
  \A p \in Coords :
    /\ (~visible[p] /\ tiles[p].t = TileEmp) =>
         ShownAfter(p) = Shown \cup Expected(p)
    /\ tiles[p].t = TileNum => ShownAfter(p) = Shown \cup {p}

\* A flood has run over an Empty region of several cells and its border, and
\* has left cells hidden.
C7_Witness ==
  /\ stage = "placed" /\ Mines # {}
  /\ \E p, q \in Shown : p # q /\ tiles[p].t = TileEmp /\ tiles[q].t = TileEmp
  /\ \E p \in Shown : tiles[p].t = TileNum
  /\ \E p \in Coords \ Mines : ~visible[p]

\* C8 -- Flood safety: on a board produced by mine placement, a reveal that
\* starts on a non-mine cell changes the visibility of no Mine cell; and
\* isGameOver() is Loss only with a Mine visible, so that such a reveal never
\* turns the game into Loss.
C8_FloodSafety ==
  stage = "placed" =>
    /\ Status = "LOSS" => MineVisible
    /\ \A p \in Coords \ Mines :
         LET a == After(p) IN \A q \in Mines : a[q] = visible[q]

\* A flood went by a hidden mine: a Number next to the mine and an Empty cell
\* are visible, the mine is not.
C8_Witness ==
  /\ stage = "placed" /\ ~MineVisible
  /\ \E m \in Mines : \E p \in Shown : tiles[p].t = TileNum /\ Adjacent(p, m)
  /\ \E p \in Shown : tiles[p].t = TileEmp

\* The number of mines that touch p, counted over the set of mines.
MineNeighbours(p) == Cardinality({q \in Mines : Adjacent(p, q)})

\* C9 -- Placement invariant: after mine placement on a fresh board every
\* non-mine cell is Number(n) exactly when n > 0 of its in-bounds neighbours
\* are mines and Empty exactly when none is; no Empty cell touches a Mine.
C9_PlacementInvariant ==
  stage = "placed" =>
    /\ \A p \in Coords \ Mines :
         /\ tiles[p] = Num(MineNeighbours(p)) <=> MineNeighbours(p) > 0
         /\ tiles[p] = Emp <=> MineNeighbours(p) = 0
    /\ \A p \in Coords, q \in Mines : tiles[p].t = TileEmp => ~Adjacent(p, q)

\* A placed board that holds a mine, a Number and an Empty cell.
C9_Witness ==
  /\ stage = "placed" /\ NoneVisible /\ Mines # {}
  /\ \E p \in Coords : tiles[p].t = TileNum
  /\ \E p \in Coords : tiles[p].t = TileEmp

C11_MineCount ==
  (stage = "fresh" /\ NoneVisible) =>
    \A c \in 0..(W * H - 1), s \in Coords :
      LET bs == Placements(c, s)
      IN /\ bs # {}
         /\ \A b \in bs : Cardinality({q \in Coords : b[q].t = TileMin}) = c

\* A placement with no mine at all has been made: the board is still Empty.
C11_Witness ==
  stage = "placed" /\ Mines = {} /\ \A p \in Coords : tiles[p] = Emp

\* C12 -- Lazy initialization: mine placement is triggered by the first
\* reveal(x, y) of a game, before the cell is made visible, and by nothing
\* else; so a game with a visible cell has had its placement.
C12_LazyInit == Shown # {} => stage # "fresh"

C14_OutOfRange ==
  [][(log'.op \in BoardOps /\ log'.args # <<>> /\ ~InBounds(log'.args)) =>
       /\ log'.error = "RangeError"
       /\ log'.delivered = <<>>
       /\ tiles' = tiles
       /\ visible' = visible]_vars

\* reveal was called outside the board of a game that is watched and has
\* visible cells.
C14_Witness ==
  /\ log.op = "reveal" /\ log.error = "RangeError"
  /\ observers # <<>> /\ Shown # {}

\* What game.reveal on p would do in the current state.
RevealNow(p) == reveal(observers, behaviour, roomDeads, tiles, visible, p)

\* The observers a flush has called with a top-level batch, in order.
Receivers(f) ==
  LET top == SelectSeq(f.delivered, LAMBDA d : d.depth = 0)
  IN [i \in 1..Len(top) |-> top[i].to]

\* C15 -- Idempotence of reveal: reveal on an already visible cell changes no
\* visibility and reports no changed coordinates to any observer.
C15_Idempotent ==
  \A p \in Shown :
    LET f == RevealNow(p)
    IN f.visible = visible /\ f.delivered = <<>>

\* C16 -- Batched notification: each reveal delivers to every subscribed
\* observer exactly one notification, after the whole flood, carrying all
\* the coordinates the call made visible; no observer is called mid-flood.
C16_Batched ==
  \A p \in Coords :
    LET f == RevealNow(p)
        made == ShownAfter(p) \ Shown
    IN /\ Receivers(f) = observers
       /\ \A i \in 1..Len(f.delivered) :
            /\ made \subseteq Range(f.delivered[i].cs)
            /\ Range(f.delivered[i].cs) \subseteq made \cup {p}
            /\ f.delivered[i].cs = f.delivered[1].cs

\* Two observers have each been handed the one batch of a flood over the
\* whole board.
C16_Witness ==
  /\ log.op = "reveal" /\ Len(observers) >= 2
  /\ Len(log.delivered) = Len(observers)
  /\ \A i \in 1..Len(log.delivered) : Range(log.delivered[i].cs) = Coords

\* C17 -- Unsubscribe: once the handle observe returned has been called, that
\* observer is called by no later flush, while the other observers keep
\* being notified.
C17_Unsubscribed ==
  \A p \in Coords :
    LET got == Range(Receivers(RevealNow(p)))
    IN /\ \A k \in Sockets : behaviour[k] = "gone" => k \notin got
       /\ Range(observers) \subseteq got

\* A flush went to a remaining observer, and not to one that had
\* unsubscribed.
C17_Witness ==
  /\ log.op = "reveal" /\ log.delivered # <<>>
  /\ \E k \in Sockets :
       /\ behaviour[k] = "gone"
       /\ \A i \in 1..Len(log.delivered) : log.delivered[i].to # k

\* C18 -- Reentrant-safe notification: when an observer, inside its call,
\* unsubscribes itself or another observer or issues a further reveal, every
\* observer that was subscribed when the flush started and is not itself
\* unsubscribed still receives that batch exactly once.
C18_Reentrant ==
  \A p \in Coords :
    LET f == RevealNow(p)
        got == Receivers(f)
    IN \A k \in Range(observers) \cap Range(f.observers) :
         Cardinality({i \in 1..Len(got) : got[i] = k}) = 1

\* The mark that follows v in the cycle None, Flagged, Questioned.
CycleNext(v) == CASE v = 0 -> 1 [] v = 1 -> 2 [] v = 2 -> 0

C20_FlagBlocksReveal ==
  stage = "started" =>
    \A p \in Coords :
      (~visible[p] /\ flagged[p] \in {1, 2}) =>
        LET r == revealTile(tiles, visible, flagged, gameOver, p)
        IN r.revealed = visible /\ r.gameOver = gameOver

\* A reveal was sent for a marked cell and went no further, in a game with
\* revealed cells; the cell is still hidden.
C20_Witness ==
  /\ log.op = "revealTile" /\ log.error = "marked" /\ Shown # {}
  /\ \E p \in Coords : flagged[p] # 0 /\ ~visible[p]

\* C21 -- Chord: on a revealed Number(n) cell the request reveals every
\* hidden neighbour without a flag when the flagged neighbours are exactly n,
\* leaving the flagged ones hidden, and reveals nothing when their count
\* differs from n.
C21_Chord ==
  (stage = "started" /\ gameOver = "no") =>
    \A p \in Coords :
      (visible[p] /\ tiles[p].t = TileNum) =>
        LET r == chordTile(tiles, visible, flagged, gameOver, p)
            targets == chordTargets(visible, flagged, p)
        IN IF Cardinality(flaggedNeighbors(flagged, p)) = tiles[p].n
           THEN /\ \A q \in targets : r.revealed[q]
                /\ \A q \in flaggedNeighbors(flagged, p) :
                     r.revealed[q] = visible[q]
           ELSE r.revealed = visible

\* A chord has just revealed cells, and a flag kept one neighbour hidden.
C21_Witness ==
  /\ log.op = "chordTile"
  /\ log.error = "update"
  /\ \E p \in Coords : flagged[p] = 1 /\ ~visible[p]
  /\ \E p \in Coords : visible[p] /\ tiles[p].t # TileNum

\* C22 -- apply(x, y) is the player's view of a cell: the Flag marker when
\* the cell is flagged, else its Tile when it is visible, else the Hidden
\* sentinel.
C22_ApplyProjection ==
  \A p \in Coords :
    apply(tiles, visible, p) =
      IF flagged[p] = 1 THEN Flag
      ELSE IF visible[p] THEN tiles[p]
      ELSE Hidden

\* The hidden cells, and the visible Number cells that have a hidden
\* neighbour: the cells whose number constrains the hidden ones.
HiddenCells == {q \in Coords : ~visible[q]}
Constraining ==
  {p \in Coords : /\ visible[p]
                  /\ tiles[p].t = TileNum
                  /\ \E q \in Range(Neighbors(p)) : ~visible[q]}

\* The mine assignments of the hidden cells that agree with every visible
\* number: A is the set of hidden cells holding a mine.
Consistent ==
  {A \in SUBSET HiddenCells :
     \A p \in Constraining :
       LET nb == Range(Neighbors(p))
       IN Cardinality(A \cap nb)
            + Cardinality({q \in nb : visible[q] /\ tiles[q].t = TileMin})
          = tiles[p].n}

\* The hidden cells that hold no mine in any consistent assignment.
ProvablySafe == {q \in HiddenCells : \A A \in Consistent : q \notin A}

\* C23 (as stated) -- in every visible state an answer of false from
\* isAmbiguous comes with a hidden cell that is mine-free in every consistent
\* assignment.
C23_SoundEverywhere ==
  (log.op = "isAmbiguous" /\ log.error = "false") => ProvablySafe # {}

\* C23 -- Solver soundness: when some visible Number cell has a hidden
\* neighbour and isAmbiguous answers false, at least one hidden cell is
\* mine-free in every mine assignment consistent with the visible numbers.
C23_Sound ==
  (log.op = "isAmbiguous" /\ log.error = "false" /\ Constraining # {})
    => ProvablySafe # {}

\* The solver answered false from the enumeration of a component, on a layout
\* with two mines where a consistent assignment exists.
C23_Witness ==
  /\ log.op = "isAmbiguous"
  /\ log.error = "false"
  /\ stage = "placed"
  /\ Cardinality({p \in Coords : tiles[p].t = TileMin}) = 2
  /\ Constraining # {}
  /\ Consistent # {}
  /\ \A p \in Constraining : \E A \in Consistent :
       A \cap Range(Neighbors(p)) # {}

\* C24 -- Solver exactness: on a real mine layout in which some visible
\* Number has a hidden neighbour, isAmbiguous answers true exactly when no
\* hidden cell is mine-free in every assignment that satisfies all visible
\* numbers together; in particular it answers true where only mines can be
\* deduced.
C24_Exact ==
  (log.op = "isAmbiguous" /\ stage = "placed" /\ Constraining # {})
    => /\ (log.error = "true") <=> (ProvablySafe = {})
       /\ (/\ ProvablySafe = {}
           /\ \E q \in HiddenCells : \A A \in Consistent : q \in A)
            => log.error = "true"

\* The solver answered true on a real layout where a hidden cell is a mine in
\* every consistent assignment and another hidden cell is not constrained.
C24_Witness ==
  /\ log.op = "isAmbiguous"
  /\ log.error = "true"
  /\ stage = "placed"
  /\ Constraining # {}
  /\ \E q \in HiddenCells : \A A \in Consistent : q \in A
  /\ \E q \in HiddenCells : \A p \in Constraining :
       q \notin Range(Neighbors(p))

\* The definitions with w and h explicit agree with those of the W x H board.
SameOnBoard ==
  /\ isAmbiguousOn(W, H, visible, tiles) = isAmbiguous(visible, tiles)
  /\ isGameOverOn(W, H, tiles, visible) = isGameOver(tiles, visible)

\* The scenario's row: Number(1), Mine, Number(1) in the first three cells,
\* these three visible and the last two cells either both hidden or both
\* visible.
RowScenario ==
  /\ DOMAIN tiles = RowCells
  /\ tiles[<<0, 0>>] = Num(1)
  /\ tiles[<<1, 0>>] = Min
  /\ tiles[<<2, 0>>] = Num(1)
  /\ visible[<<0, 0>>] /\ visible[<<1, 0>>] /\ visible[<<2, 0>>]
  /\ visible[<<3, 0>>] = visible[<<4, 0>>]
  /\ log.op = "isAmbiguous"

\* C25 (as stated) -- on the 5-cell row with Number(1), Mine, Number(1)
\* revealed isAmbiguous returns true.
C25_RowAmbiguous == RowScenario => log.error = "true"

\* C25 -- on the 5-cell row with Number(1) at (0,0), Mine at (1,0) and
\* Number(1) at (2,0) revealed isAmbiguous returns false.
C25_RowNotAmbiguous == RowScenario => log.error = "false"

\* The solver was asked on the scenario's row with the last two cells hidden.
C25_Witness == RowScenario /\ ~visible[<<3, 0>>]

\* The steps give what the definitions of the whole call give: the flood
\* ends with the visibility of revealRec, the solver with the answer of
\* isAmbiguous.
StepsAgree ==
  [][/\ (run.op = "reveal" /\ run'.op = "idle") => visible' = run.expect
     /\ (run.op = "isGameOver" /\ run'.op = "idle")
          => stepSolver(run).answer = run.expect]_vars

\* C26 -- Termination: every call of reveal (the recursive flood) and every
\* call of isGameOver (the solver's enumeration) that has begun comes to its
\* end, on boards from init and on hand-built boards alike.
C26_Terminates == (run.op # "idle") ~> (run.op = "idle")

\* The solver is enumerating, two calls of solve deep, on a hand-built board
\* on which a reveal has been carried out.
C26_Witness ==
  /\ run.op = "isGameOver"
  /\ run.phase = "solve"
  /\ Len(run.stack) >= 2
  /\ stage = "manual"
  /\ \E p \in Coords : visible[p]

\* C27 -- Area cap: on a board of more than 480 cells, with no mine visible
\* and some non-mine cell hidden, isGameOver() reports Gaming whatever the
\* visible numbers are.
C27_AreaCap ==
  (/\ log.op = "isGameOver"
   /\ BigSize[1] * BigSize[2] > 480
   /\ DOMAIN tiles = BigCells
   /\ ~\E p \in BigCells : visible[p] /\ tiles[p].t = TileMin
   /\ \E p \in BigCells : ~visible[p] /\ tiles[p].t # TileMin)
    => log.error = "GAMING"

\* C28 -- Solver with no constraints: when no visible Number cell has a
\* hidden neighbour, isAmbiguous answers false if no cell is visible, true if
\* some cell is visible and some cell is hidden, false if no cell is hidden.
C28_NoConstraints ==
  (log.op = "isAmbiguous" /\ Constraining = {})
    => log.error =
         (IF \A p \in Coords : ~visible[p] THEN "false"
          ELSE IF HiddenCells # {} THEN "true"
          ELSE "false")

\* The solver answered true with a cell visible, a cell hidden and no
\* constraint.
C28_Witness ==
  /\ log.op = "isAmbiguous"
  /\ log.error = "true"
  /\ Constraining = {}
  /\ HiddenCells # {}
  /\ \E p \in Coords : visible[p]

\* C29 -- init(c, sx, sy) rejects a count that is not an integer with
\* TypeError, and an integer count below 0 or at least w*h, or an anchor
\* outside the board, with RangeError; a rejected call has changed no tile.
C29_InitRejects ==
  [][log'.op = "init" =>
       LET c == log'.args[1]
           s == log'.args[2]
       IN /\ ~IsInteger(c) => log'.error = "TypeError"
          /\ (IsInteger(c) /\ (c < 0 \/ c >= 2 * (W * H) \/ ~InBounds(s))) =>
               log'.error = "RangeError"
          /\ log'.error # "none" => tiles' = tiles]_vars

\* init was refused for its anchor alone: the count is an integer in range.
C29_Witness ==
  /\ log.op = "init" /\ log.error = "RangeError"
  /\ IsInteger(log.args[1]) /\ log.args[1] > 0 /\ log.args[1] < 2 * (W * H)
  /\ ~InBounds(log.args[2])
  /\ \A p \in Coords : tiles[p] = Emp

\* The sockets connected to the room.
Connected == {k \in Sockets : rooms.game[k] # 0}

\* C30 -- All participants of one room act on the same single Game instance
\* for the whole life of the room: any two sockets connected to the room,
\* whether they connected before or after a launch request, hold the same
\* Game for their reveal and flag calls and their subscription.
C30_SingleGame == \A j, k \in Connected : rooms.game[j] = rooms.game[k]

\* C31 -- Room capacity under interleaving: a room of the array-based server
\* never holds more than 4 players, however the joinLobby handlers, which
\* await a file read between the size test and the insertion, interleave.
C31_RoomCapacity == room.exists => Cardinality(room.players) <= RoomCapacity

\* C35 -- Once room.state.gameOver is set, every revealTile and toggleFlag
\* request leaves the revealed and flagged grids as they are and returns
\* before it emits anything, until restartGame; restartGame clears revealed,
\* flagged and gameOver and keeps the mine layout.
C35_OverUntilRestart ==
  [][/\ (gameOver # "no" /\ log'.op \in {"revealTile", "toggleFlag"}) =>
          /\ visible' = visible
          /\ flagged' = flagged
          /\ gameOver' = gameOver
          /\ log'.error = "over"
     /\ log'.op = "restartGame" =>
          /\ tiles' = tiles
          /\ \A p \in Coords : ~visible'[p] /\ flagged'[p] = 0
          /\ gameOver' = "no"]_vars

\* A toggleFlag request was turned away in a game lost with a mark on the
\* board.
C35_Witness ==
  /\ gameOver = "loss" /\ log.op = "toggleFlag" /\ log.error = "over"
  /\ \E p \in Coords : flagged[p] # 0

\* C32 -- Lobby membership: after any sequence of create, join, leave and
\* disconnect events the player list of a lobby holds no name twice and at
\* most 4 names, and the join of a fifth distinct player is answered with
\* "Lobby is full." and leaves the list as it was.
C32_Membership ==
  [][/\ \A i, j \in 1..Len(rooms'.players) :
          i # j => rooms'.players[i] # rooms'.players[j]
     /\ Len(rooms'.players) <= LobbyCapacity
     /\ (/\ log'.op = "join lobby"
         /\ Len(rooms.players) = LobbyCapacity
         /\ log'.args[1] \notin Range(rooms.players)) =>
          /\ log'.error = "Lobby is full."
          /\ rooms'.players = rooms.players]_vars

\* A fifth player was turned away from a lobby of four.
C32_Witness ==
  /\ log.op = "join lobby" /\ log.error = "Lobby is full."
  /\ Len(rooms.players) = LobbyCapacity
  /\ log.args[1] \notin Range(rooms.players)

C33_OncePerGame == rooms.recorded = Cardinality(rooms.over)

\* C36 -- Batch contents: the coordinate list flushed by one reveal call
\* holds no coordinate twice, every coordinate in it is visible when it is
\* flushed, and a coordinate other than the call's target is in it only if
\* the call has turned it from hidden to visible.
C36_BatchContents ==
  \A p \in Coords :
    LET f == RevealNow(p)
    IN \A i \in 1..Len(f.delivered) :
         LET cs == f.delivered[i].cs
         IN /\ \A a, b \in 1..Len(cs) : a # b => cs[a] # cs[b]
            /\ \A a \in 1..Len(cs) : f.visible[cs[a]]
            /\ \A a \in 1..Len(cs) :
                 cs[a] # p => (~visible[cs[a]] /\ f.visible[cs[a]])

\* A connected socket has been handed the batch of a flood of several cells
\* that stopped at the numbers around a mine.
C36_Witness ==
  /\ log.op = "reveal" /\ Mines # {} /\ Len(log.delivered) > 0
  /\ Len(log.delivered[1].cs) >= 3
  /\ \E p \in Coords : ~visible[p] /\ tiles[p].t # TileMin

\* C37 -- Monotone visibility and frozen tiles: no step of a reveal or
\* isGameOver call turns a visible cell hidden or changes a cell's Tile, a
\* step of isGameOver changes neither; so once a mine is visible it stays
\* visible and isGameOver() reports Loss ever after.
C37_Monotone ==
  [][/\ \A p \in Coords : visible[p] => visible'[p]
     /\ ~(run.op = "idle" /\ run'.op = "idle") => tiles' = tiles
     /\ (run.op = "isGameOver" \/ run'.op = "isGameOver") =>
          (visible' = visible /\ tiles' = tiles)
     /\ MineVisible =>
          /\ \E p \in Coords : visible'[p] /\ tiles'[p].t = TileMin
          /\ isGameOver(tiles', visible') = "LOSS"]_vars

\* With a mine visible, a later reveal is flooding, two calls deep.
C37_Witness ==
  /\ MineVisible /\ run.op = "reveal" /\ Len(run.stack) >= 2
  /\ \E p \in Coords : ~visible[p]

====
